---- MODULE Spec2Model ----
(***************************************************************************)
(* Course service (services/courses/server.js), its Mongoose schema        *)
(* (models/Course.js) and the Redis / Elasticsearch adapters               *)
(* (config/redis.js, config/elasticsearch.js) as a state machine.          *)
(*                                                                         *)
(* Every request handler is split at its awaits: each step below is the    *)
(* code that runs between two suspension points, so handlers of different  *)
(* requests interleave exactly where the event loop lets them.             *)
(***************************************************************************)
EXTENDS Integers, Sequences, FiniteSets, TLC

VARIABLES
  store,           \* the courses collection, in insertion order; _id = position
  esIndex,         \* the 'courses' Elasticsearch index: set of indexed documents
  cache,           \* Redis: key -> entry, or NoEntry
  redisConnected,  \* RedisClient.isConnected
  redisEvent,      \* history: the last event of the Redis client, "none" before connect()
  esConnected,     \* ElasticsearchClient.isConnected
  req,             \* per request slot: the handler's position and locals
  doneVer,         \* history: highest _id written by a mutating call that has completed
  admins,          \* the admins collection of the auth service, by email
  localStorage,    \* the browser's localStorage: key -> string
  auth             \* AuthProvider: its React state admin, token, isLoading

vars == <<store, esIndex, cache, redisConnected, redisEvent, esConnected, req, doneVer, admins,
          localStorage, auth>>

-----------------------------------------------------------------------------
(* Bounds of the model *)

\* longest CSV upload, in data rows
MaxRows == 3

\* the request slots that may be in flight at once
Procs == {1, 2}

-----------------------------------------------------------------------------
(* JavaScript string helpers *)

UpperChar(c) ==
  CASE c = "a" -> "A" [] c = "b" -> "B" [] c = "c" -> "C" [] c = "s" -> "S"
    [] c = "i" -> "I" [] c = "n" -> "N" [] c = "t" -> "T" [] c = "r" -> "R"
    [] c = "o" -> "O" [] OTHER -> c

RECURSIVE ToUpperCase(_)
\* String.prototype.toUpperCase
ToUpperCase(s) ==
  IF s = "" THEN ""
  ELSE UpperChar(SubSeq(s, 1, 1)) \o ToUpperCase(SubSeq(s, 2, Len(s)))

RECURSIVE TrimLeft(_)
TrimLeft(s) ==
  IF s = "" THEN ""
  ELSE IF SubSeq(s, 1, 1) = " " THEN TrimLeft(SubSeq(s, 2, Len(s))) ELSE s

RECURSIVE TrimRight(_)
TrimRight(s) ==
  IF s = "" THEN ""
  ELSE IF SubSeq(s, Len(s), Len(s)) = " " THEN TrimRight(SubSeq(s, 1, Len(s) - 1)) ELSE s

\* String.prototype.trim
Trim(s) == TrimRight(TrimLeft(s))

DigitValue(c) ==
  CASE c = "0" -> 0 [] c = "1" -> 1 [] c = "2" -> 2 [] c = "3" -> 3 [] c = "4" -> 4
    [] c = "5" -> 5 [] c = "6" -> 6 [] c = "7" -> 7 [] c = "8" -> 8 [] c = "9" -> 9
    [] OTHER -> -1

RECURSIVE LeadingDigits(_, _)
\* value of the longest prefix of digits of s, acc the value read so far
LeadingDigits(s, acc) ==
  IF s = "" \/ DigitValue(SubSeq(s, 1, 1)) < 0 THEN acc
  ELSE LeadingDigits(SubSeq(s, 2, Len(s)), 10 * acc + DigitValue(SubSeq(s, 1, 1)))

\* parseFloat(s) || 0 on the unsigned whole numbers the model uploads:
\* leading blanks skipped, NaN (no leading digit) and 0 both give 0
ParseFloatOr0(s) ==
  LET t == TrimLeft(s)
  IN  IF t = "" \/ DigitValue(SubSeq(t, 1, 1)) < 0 THEN 0 ELSE LeadingDigits(t, 0)

RECURSIVE Join(_, _)
\* Array.prototype.join
Join(parts, sep) ==
  IF parts = <<>> THEN ""
  ELSE IF Len(parts) = 1 THEN parts[1]
  ELSE parts[1] \o sep \o Join(Tail(parts), sep)

\* row[f] is undefined
Absent(r, f) == f \notin DOMAIN r

-----------------------------------------------------------------------------
(* models/Course.js: the schema *)

validCategories ==
  {"Programming", "Data Science", "Web Development", "Mobile Development",
   "Machine Learning", "DevOps", "Database", "Cloud Computing",
   "Cybersecurity", "UI/UX Design", "Digital Marketing", "Business", "Other"}

validLevels == {"Beginner", "Intermediate", "Advanced"}

validStatuses == {"draft", "published", "archived"}

TitleMinLen == 3
TitleMaxLen == 200
DescriptionMinLen == 10
DescriptionMaxLen == 2000
InstructorMinLen == 2
InstructorMaxLen == 100
DurationMin == 1
DurationMax == 1000

\* the schema without uppercase: true on course_id
CastCourse_NoUppercase(data) ==
  [f \in DOMAIN data \union {"level", "status"} |->
     CASE f = "duration" -> data[f]
       [] f = "level" -> IF Absent(data, f) THEN "Beginner" ELSE data[f]
       [] f = "status" -> IF Absent(data, f) THEN "published" ELSE data[f]
       [] OTHER -> Trim(data[f])]

\* new Course(data): setters (trim, uppercase) and defaults of the schema paths
CastCourse(data) ==
  [f \in DOMAIN data \union {"level", "status"} |->
     CASE f = "course_id" -> ToUpperCase(Trim(data[f]))
       [] f = "duration" -> data[f]
       [] f = "level" -> IF Absent(data, f) THEN "Beginner" ELSE data[f]
       [] f = "status" -> IF Absent(data, f) THEN "published" ELSE data[f]
       [] OTHER -> Trim(data[f])]

\* the paths of doc that fail the schema validators, as validate() reports them
ValidationErrors(doc) ==
  {f \in {"course_id", "title", "description", "category", "instructor", "duration"} :
     Absent(doc, f) \/ (f # "duration" /\ doc[f] = "")}
  \union {f \in {"title"} \cap DOMAIN doc :
            doc[f] # "" /\ (Len(doc[f]) < TitleMinLen \/ Len(doc[f]) > TitleMaxLen)}
  \union {f \in {"description"} \cap DOMAIN doc :
            doc[f] # "" /\ (Len(doc[f]) < DescriptionMinLen \/ Len(doc[f]) > DescriptionMaxLen)}
  \union {f \in {"instructor"} \cap DOMAIN doc :
            doc[f] # "" /\ (Len(doc[f]) < InstructorMinLen \/ Len(doc[f]) > InstructorMaxLen)}
  \union {f \in {"category"} \cap DOMAIN doc : doc[f] # "" /\ doc[f] \notin validCategories}
  \union {f \in {"duration"} \cap DOMAIN doc : doc[f] < DurationMin \/ doc[f] > DurationMax}
  \union {f \in {"level"} \cap DOMAIN doc : doc[f] \notin validLevels}
  \union {f \in {"status"} \cap DOMAIN doc : doc[f] \notin validStatuses}

\* the schema without unique: true on course_id
DuplicateKey_NoIndex(st, doc) == FALSE

\* the unique index on course_id: a stored document already has this value
DuplicateKey(st, doc) == \E i \in 1..Len(st) : st[i].course_id = doc.course_id

RECURSIVE TitleAbbr(_, _)
\* title.split(' ').map(word => word.charAt(0).toUpperCase()).join(''): the first
\* character of every word of title from position i on
TitleAbbr(title, i) ==
  IF i > Len(title) THEN ""
  ELSE (IF SubSeq(title, i, i) # " " /\ (i = 1 \/ SubSeq(title, i - 1, i - 1) = " ")
          THEN UpperChar(SubSeq(title, i, i)) ELSE "")
       \o TitleAbbr(title, i + 1)

\* Date.now().toString().slice(-4): the last four digits of the clock
Stamps == {"0001", "9999"}

\* the pre('save') hook of the schema: a document without course_id gets one made of
\* the first four initials of its title and the stamp
GenerateCourseId(doc, stamp) ==
  IF Absent(doc, "course_id") \/ doc.course_id = ""
    THEN [f \in DOMAIN doc \union {"course_id"} |->
            IF f = "course_id"
              THEN SubSeq(TitleAbbr(doc.title, 1), 1,
                          IF Len(TitleAbbr(doc.title, 1)) < 4 THEN Len(TitleAbbr(doc.title, 1))
                          ELSE 4) \o stamp
              ELSE doc[f]]
    ELSE doc

\* course.save(): validation (the built-in first pre-save hook), then the hook of the
\* schema (the validated document has a course_id, so every stamp gives the same
\* document), then the insert under the unique index.  The result is the saved
\* document or the error thrown.
SaveCourse(st, data) ==
  LET cast == CastCourse(data)
      bad  == ValidationErrors(cast)
      doc  == CHOOSE d \in {GenerateCourseId(cast, stamp) : stamp \in Stamps} : TRUE
  IN  IF bad # {} THEN [ok |-> FALSE, name |-> "ValidationError", code |-> 0, errors |-> bad]
      ELSE IF DuplicateKey(st, doc)
        THEN [ok |-> FALSE, name |-> "MongoServerError", code |-> 11000, errors |-> {}]
      ELSE [ok |-> TRUE, doc |-> [f \in DOMAIN doc \union {"_id"} |->
                                    IF f = "_id" THEN Len(st) + 1 ELSE doc[f]]]

-----------------------------------------------------------------------------
(* config/redis.js: the cache adapter.  A cache is a function from the keys   *)
(* present to entries [value, ttl, ver, seenBy]; ver and seenBy are history:  *)
(* the store size when the value was computed, and the mutating calls that    *)
(* began while the entry was present.                                         *)

\* RedisClient.get: null when disconnected, when the command throws (~ok) or on a miss
RedisGet(c, connected, ok, key) ==
  IF connected /\ ok /\ key \in DOMAIN c THEN <<c[key]>> ELSE <<>>

\* set without the check of the flag: the command goes to the client whatever the
\* adapter believes about the connection
RedisSet_NoGuard(c, connected, ok, key, value, expiry, ver) ==
  IF ok
    THEN (key :> [value |-> value, ttl |-> expiry, ver |-> ver, seenBy |-> {}]) @@ c
    ELSE c

\* RedisClient.set: SETEX key expiry JSON(value); nothing when disconnected or on a throw
RedisSet(c, connected, ok, key, value, expiry, ver) ==
  IF connected /\ ok
    THEN (key :> [value |-> value, ttl |-> expiry, ver |-> ver, seenBy |-> {}]) @@ c
    ELSE c

\* RedisClient.del: DEL key, which removes the one entry stored under exactly that key
RedisDel(c, connected, ok, key) ==
  IF connected /\ ok THEN [k \in DOMAIN c \ {key} |-> c[k]] ELSE c

\* history only: the entries present when mutating call p begins are marked with p
MarkSeen(c, p) == [k \in DOMAIN c |-> [c[k] EXCEPT !.seenBy = @ \union {p}]]

\* history only: call p is over, its marks are dropped
Unmark(c, p) == [k \in DOMAIN c |-> [c[k] EXCEPT !.seenBy = @ \ {p}]]

\* getCacheKey(prefix, ...params)
getCacheKey(prefix, params) == "courses:" \o prefix \o ":" \o Join(params, ":")

ListTTL == 300
SearchTTL == 120
SingleTTL == 600
StatsTTL == 900

-----------------------------------------------------------------------------
(* Query helpers *)

\* req.query.<f> with its destructuring default
QueryParam(q, f, default) == IF Absent(q, f) THEN default ELSE q[f]

\* value || fallback for a string parameter: undefined and '' are falsy
OrElse(q, f, fallback) == IF Absent(q, f) \/ q[f] = "" THEN fallback ELSE q[f]

\* parseInt of a query parameter holding a whole number
ParseInt(s) == LeadingDigits(s, 0)

\* Math.floor in place of Math.ceil
CeilDiv_Floor(total, limit) == total \div limit

\* Math.ceil(total / limit)
CeilDiv(total, limit) == (total + limit - 1) \div limit

Reverse(s) == [i \in 1..Len(s) |-> s[Len(s) + 1 - i]]

\* .skip(skip).limit(limit) of a sequence
SkipLimit(s, skip, limit) ==
  SubSeq(s, skip + 1, IF skip + limit < Len(s) THEN skip + limit ELSE Len(s))

Max(a, b) == IF a >= b THEN a ELSE b

-----------------------------------------------------------------------------
(* Request slots *)

Idle == [op |-> "idle", pc |-> "idle"]

\* the handler of slot p has sent its response
Responded(p) == req[p].pc = "done"

\* res.json / res.status(..).json: the handler is over, the slot keeps the request (r) and
\* the response until the caller collects it
Respond(r, resp) == [r EXCEPT !.pc = "done"] @@ [resp |-> resp]

\* a 200 response served from the cache: { success, data, cached: true }
CachedResponse(entry) ==
  [status |-> 200, data |-> entry.value, cached |-> TRUE, ver |-> entry.ver]

\* a 200 response computed from the source of truth: { success, data } (no cached field)
FreshResponse(value, ver) == [status |-> 200, data |-> value, ver |-> ver]

\* the first step of every read handler: RedisClient.get(key), then the hit response
\* or the move on to the source of truth
CacheLookup(p, op, q, key, ok) ==
  LET got == RedisGet(cache, redisConnected, ok, key)
      r   == [op |-> op, pc |-> "query", q |-> q, key |-> key, startVer |-> doneVer]
  IN  /\ req' = [req EXCEPT ![p] = IF got # <<>> THEN Respond(r, CachedResponse(got[1]))
                                   ELSE r]
      /\ UNCHANGED <<store, esIndex, cache, redisConnected, redisEvent, esConnected, doneVer,
                     admins, localStorage, auth>>

\* the last step of every read handler: RedisClient.set(key, result, ttl), then the response
CacheFill(p, ttl, ok) ==
  /\ cache' = RedisSet(cache, redisConnected, ok, req[p].key, req[p].result, ttl, req[p].ver)
  /\ req' = [req EXCEPT ![p] = Respond(req[p], FreshResponse(req[p].result, req[p].ver))]
  /\ UNCHANGED <<store, esIndex, redisConnected, redisEvent, esConnected, doneVer, admins,
                 localStorage, auth>>

\* the middle step of a read handler: the result computed from the source of truth
Computed(p, result) ==
  /\ req' = [req EXCEPT ![p] = [@ EXCEPT !.pc = "set"] @@ [result |-> result, ver |-> Len(store)]]
  /\ UNCHANGED <<store, esIndex, cache, redisConnected, redisEvent, esConnected, doneVer,
                 admins, localStorage, auth>>

-----------------------------------------------------------------------------
(* GET /api/courses *)

ListKey(q) ==
  getCacheKey("list",
    << ToString(ParseInt(QueryParam(q, "page", "1"))),
       ToString(ParseInt(QueryParam(q, "limit", "10"))),
       OrElse(q, "category", "all"),
       OrElse(q, "instructor", "all"),
       OrElse(q, "level", "all"),
       QueryParam(q, "status", "published"),
       QueryParam(q, "sort", "created_at"),
       QueryParam(q, "order", "desc"),
       OrElse(q, "search", "none") >>)

\* the Mongo filter built from the query parameters
ListMatch(q, doc) ==
  /\ doc.status = QueryParam(q, "status", "published")
  /\ OrElse(q, "category", "") # "" => doc.category = q.category
  /\ OrElse(q, "level", "") # "" => doc.level = q.level

\* Course.find(query).sort(sortObj).skip(skip).limit(limitNum) with countDocuments(query),
\* for sort = created_at (insertion order)
ListResult(st, q) ==
  LET pageNum  == ParseInt(QueryParam(q, "page", "1"))
      limitNum == ParseInt(QueryParam(q, "limit", "10"))
      skip     == (pageNum - 1) * limitNum
      found    == SelectSeq(st, LAMBDA d : ListMatch(q, d))
      sorted   == IF QueryParam(q, "order", "desc") = "desc" THEN Reverse(found) ELSE found
      total    == Len(found)
  IN  [courses |-> SkipLimit(sorted, skip, limitNum),
       pagination |-> [current_page |-> pageNum,
                       total_pages |-> CeilDiv(total, limitNum),
                       total_items |-> total,
                       items_per_page |-> limitNum,
                       has_next |-> pageNum < CeilDiv(total, limitNum),
                       has_prev |-> pageNum > 1]]

ListGet(p, q, ok) ==
  /\ req[p] = Idle
  /\ CacheLookup(p, "list", q, ListKey(q), ok)

ListQuery(p) ==
  /\ req[p].op = "list"
  /\ req[p].pc = "query"
  /\ Computed(p, ListResult(store, req[p].q))

ListSet(p, ok) ==
  /\ req[p].op = "list"
  /\ req[p].pc = "set"
  /\ CacheFill(p, ListTTL, ok)

-----------------------------------------------------------------------------
(* GET /api/courses/:id *)

SingleKey(id) == getCacheKey("single", <<id>>)

\* Course.findOne({ $or: [{ _id: id }, { course_id: id.toUpperCase() }] }): the first
\* stored document that matches, if any
FindOne(st, id) ==
  LET hit == SelectSeq(st, LAMBDA d : ToString(d._id) = id \/ d.course_id = ToUpperCase(id))
  IN  IF hit = <<>> THEN <<>> ELSE <<hit[1]>>

\* Mongoose casting the _id condition of the query: a string that is no ObjectId
\* makes findOne throw a CastError.  The model writes the ObjectId of a document as
\* its position in the collection, in decimal digits.
IsObjectId(id) ==
  id # "" /\ \A i \in 1..Len(id) : DigitValue(SubSeq(id, i, i)) >= 0

SingleGet(p, id, ok) ==
  /\ req[p] = Idle
  /\ CacheLookup(p, "single", [id |-> id], SingleKey(id), ok)

\* the lookup, the 404 when nothing matches, and the 500 of the catch block when the
\* query throws
SingleQuery(p) ==
  /\ req[p].op = "single"
  /\ req[p].pc = "query"
  /\ LET course == FindOne(store, req[p].q.id)
     IN  IF ~IsObjectId(req[p].q.id)
           THEN /\ req' = [req EXCEPT ![p] = Respond(@, [status |-> 500])]
                /\ UNCHANGED <<store, esIndex, cache, redisConnected, redisEvent, esConnected,
                               doneVer, admins, localStorage, auth>>
         ELSE IF course = <<>>
           THEN /\ req' = [req EXCEPT ![p] = Respond(@, [status |-> 404])]
                /\ UNCHANGED <<store, esIndex, cache, redisConnected, redisEvent, esConnected,
                               doneVer, admins, localStorage, auth>>
           ELSE Computed(p, course[1])

SingleSet(p, ok) ==
  /\ req[p].op = "single"
  /\ req[p].pc = "set"
  /\ CacheFill(p, SingleTTL, ok)

-----------------------------------------------------------------------------
(* GET /api/courses/stats/overview *)

StatsKey == getCacheKey("stats", <<"overview">>)

\* the two aggregations: the overall count and the count per category
StatsResult(st) ==
  LET cats == {st[i].category : i \in 1..Len(st)}
  IN  [overview |-> [totalCourses |-> Len(st), totalEnrollments |-> 0],
       categories |-> {[category |-> c,
                        courseCount |-> Cardinality({i \in 1..Len(st) : st[i].category = c}),
                        totalEnrollments |-> 0] : c \in cats}]

StatsGet(p, ok) ==
  /\ req[p] = Idle
  /\ CacheLookup(p, "stats", <<>>, StatsKey, ok)

StatsQuery(p) ==
  /\ req[p].op = "stats"
  /\ req[p].pc = "query"
  /\ Computed(p, StatsResult(store))

StatsSet(p, ok) ==
  /\ req[p].op = "stats"
  /\ req[p].pc = "set"
  /\ CacheFill(p, StatsTTL, ok)

-----------------------------------------------------------------------------
(* config/elasticsearch.js and GET /api/courses/search *)

\* the body indexCourse sends, under id course._id
IndexBody(course) ==
  [f \in {"_id", "course_id", "title", "description", "category", "instructor", "duration"} |->
     course[f]]

\* an index call without id: Elasticsearch gives every call a document of its own
IndexDoc_AutoId(ix, course) ==
  ix \union {[IndexBody(course) EXCEPT !._id = 100 + Cardinality(ix)]}

\* client.index({ index: 'courses', id, body }): an upsert by id
IndexDoc(ix, course) == {d \in ix : d._id # course._id} \union {IndexBody(course)}

\* ElasticsearchClient.indexCourse: skipped when not connected, a throw (~ok) is swallowed
indexCourse(ix, connected, ok, course) ==
  IF connected /\ ok THEN IndexDoc(ix, course) ELSE ix

\* relevance of doc for the multi_match on title^2, description, instructor, category:
\* a whole-field match regardless of case, title counting double; 0 is no match
Score(doc, query) ==
  IF ToUpperCase(doc.title) = ToUpperCase(query) THEN 2
  ELSE IF ToUpperCase(query) \in {ToUpperCase(doc.description), ToUpperCase(doc.instructor),
                                  ToUpperCase(doc.category)} THEN 1
  ELSE 0

RECURSIVE SortHits(_)
\* sort: _score desc, then created_at desc (the later insert first)
SortHits(hits) ==
  IF hits = {} THEN <<>>
  ELSE LET top == CHOOSE h \in hits :
                    \A g \in hits : h._score > g._score
                                    \/ (h._score = g._score /\ h._id >= g._id)
       IN  <<top>> \o SortHits(hits \ {top})

\* the adapter without its isConnected guard: the query goes to the index whenever
\* the call does not throw
searchCourses_NoGuard(ix, connected, ok, query, filters, page, size) ==
  IF ~ok THEN [hits |-> <<>>, total |-> 0]
  ELSE LET found == {d \in ix :
                       /\ Score(d, query) > 0
                       /\ OrElse(filters, "category", "") # "" => d.category = filters.category
                       /\ OrElse(filters, "instructor", "") # ""
                            => d.instructor = filters.instructor}
           hits  == {d @@ [_score |-> Score(d, query)] : d \in found}
       IN  [hits |-> SkipLimit(SortHits(hits), (page - 1) * size, size),
            total |-> Cardinality(found)]

\* ElasticsearchClient.searchCourses(query, filters, page, size)
searchCourses(ix, connected, ok, query, filters, page, size) ==
  IF ~connected \/ ~ok THEN [hits |-> <<>>, total |-> 0]
  ELSE LET found == {d \in ix :
                       /\ Score(d, query) > 0
                       /\ OrElse(filters, "category", "") # "" => d.category = filters.category
                       /\ OrElse(filters, "instructor", "") # ""
                            => d.instructor = filters.instructor}
           hits  == {d @@ [_score |-> Score(d, query)] : d \in found}
       IN  [hits |-> SkipLimit(SortHits(hits), (page - 1) * size, size),
            total |-> Cardinality(found)]

SearchKey(q) ==
  getCacheKey("search",
    << q.q, OrElse(q, "category", "all"), OrElse(q, "instructor", "all"),
       QueryParam(q, "page", "1"), QueryParam(q, "size", "10") >>)

SearchResult(ix, connected, ok, q) ==
  LET page == ParseInt(QueryParam(q, "page", "1"))
      size == ParseInt(QueryParam(q, "size", "10"))
      searchResults == searchCourses(ix, connected, ok, Trim(q.q), q, page, size)
  IN  [courses |-> searchResults.hits,
       pagination |-> [current_page |-> page,
                       total_pages |-> CeilDiv(searchResults.total, size),
                       total_items |-> searchResults.total,
                       items_per_page |-> size,
                       has_next |-> page < CeilDiv(searchResults.total, size),
                       has_prev |-> page > 1],
       query |-> q.q]

\* !q || q.trim() === ''
BlankQuery(q) == Absent(q, "q") \/ q.q = "" \/ Trim(q.q) = ""

\* the handler looking in the cache before it checks q
SearchGet_LookupFirst(p, q, ok) ==
  /\ req[p] = Idle
  /\ CacheLookup(p, "search", q, SearchKey(q), ok)

SearchGet(p, q, ok) ==
  /\ req[p] = Idle
  /\ IF BlankQuery(q)
    THEN /\ req' = [req EXCEPT ![p] =
                      Respond([op |-> "search", pc |-> "get", q |-> q, startVer |-> doneVer],
                              [status |-> 400])]
         /\ UNCHANGED <<store, esIndex, cache, redisConnected, redisEvent, esConnected,
                        doneVer, admins, localStorage, auth>>
    ELSE CacheLookup(p, "search", q, SearchKey(q), ok)

SearchQuery(p, ok) ==
  /\ req[p].op = "search"
  /\ req[p].pc = "query"
  /\ Computed(p, SearchResult(esIndex, esConnected, ok, req[p].q))

\* the search handler caching with the expiry of the list handler
SearchSet_ListTTL(p, ok) ==
  /\ req[p].op = "search"
  /\ req[p].pc = "set"
  /\ CacheFill(p, ListTTL, ok)

SearchSet(p, ok) ==
  /\ req[p].op = "search"
  /\ req[p].pc = "set"
  /\ CacheFill(p, SearchTTL, ok)

-----------------------------------------------------------------------------
(* POST /api/courses *)

\* authHeader && authHeader.split(' ')[1]; a header is the sequence of its
\* space-separated parts, <<>> when the request carries none
TokenOf(header) == IF Len(header) >= 2 THEN header[2] ELSE ""

\* authenticateToken: next() is called for every non-empty token
authenticateToken(header) == TokenOf(header) # ""

\* the single cache invalidation the service performs
ClearCache(c, connected, ok) == RedisDel(c, connected, ok, getCacheKey("list", <<"*">>))

\* the handler indexing the new document before it awaits save(): a refused insert
\* leaves the document in the index
CreateSave_IndexFirst(p, body, header) ==
  /\ req[p] = Idle
  /\ LET r   == [op |-> "create", pc |-> "index", body |-> body, header |-> header]
         res == SaveCourse(store, body)
         doc == CastCourse(body) @@ [_id |-> Len(store) + 1]
     IN  IF ~authenticateToken(header)
           THEN /\ req' = [req EXCEPT ![p] = Respond(r, [status |-> 401])]
                /\ UNCHANGED <<store, cache, esIndex>>
         ELSE IF res.ok
           THEN /\ store' = Append(store, res.doc)
                /\ req' = [req EXCEPT ![p] = r @@ [savedCourse |-> res.doc]]
                /\ cache' = MarkSeen(cache, p)
                /\ UNCHANGED esIndex
         ELSE /\ req' = [req EXCEPT ![p] =
                           Respond(r, [status |-> IF res.name = "ValidationError" THEN 400
                                                     ELSE IF res.code = 11000 THEN 409
                                                     ELSE 500])]
              /\ esIndex' = indexCourse(esIndex, esConnected, TRUE, doc)
              /\ UNCHANGED <<store, cache>>
  /\ UNCHANGED <<redisConnected, redisEvent, esConnected, doneVer, admins, localStorage, auth>>

\* the handler clearing the list cache before it saves, whatever save() then does
CreateSave_ClearsFirst(p, body, header) ==
  /\ req[p] = Idle
  /\ LET r   == [op |-> "create", pc |-> "index", body |-> body, header |-> header]
         res == SaveCourse(store, body)
     IN  IF ~authenticateToken(header)
           THEN /\ req' = [req EXCEPT ![p] = Respond(r, [status |-> 401])]
                /\ UNCHANGED <<store, cache>>
         ELSE IF res.ok
           THEN /\ store' = Append(store, res.doc)
                /\ req' = [req EXCEPT ![p] = r @@ [savedCourse |-> res.doc]]
                /\ cache' = MarkSeen(cache, p)
         ELSE /\ req' = [req EXCEPT ![p] =
                           Respond(r, [status |-> IF res.name = "ValidationError" THEN 400
                                                     ELSE IF res.code = 11000 THEN 409
                                                     ELSE 500])]
              /\ cache' = <<>>
              /\ UNCHANGED store
  /\ UNCHANGED <<esIndex, redisConnected, redisEvent, esConnected, doneVer, admins,
                 localStorage, auth>>

CreateSave(p, body, header) ==
  /\ req[p] = Idle
  /\ LET r   == [op |-> "create", pc |-> "index", body |-> body, header |-> header]
         res == SaveCourse(store, body)
     IN  IF ~authenticateToken(header)
           THEN /\ req' = [req EXCEPT ![p] = Respond(r, [status |-> 401])]
                /\ UNCHANGED <<store, cache>>
         ELSE IF res.ok
           THEN /\ store' = Append(store, res.doc)
                /\ req' = [req EXCEPT ![p] = r @@ [savedCourse |-> res.doc]]
                /\ cache' = MarkSeen(cache, p)
         ELSE /\ req' = [req EXCEPT ![p] =
                           Respond(r, [status |-> IF res.name = "ValidationError" THEN 400
                                                     ELSE IF res.code = 11000 THEN 409
                                                     ELSE 500])]
              /\ UNCHANGED <<store, cache>>
  /\ UNCHANGED <<esIndex, redisConnected, redisEvent, esConnected, doneVer, admins,
                 localStorage, auth>>

CreateIndex(p, ok) ==
  /\ req[p].op = "create"
  /\ req[p].pc = "index"
  /\ esIndex' = indexCourse(esIndex, esConnected, ok, req[p].savedCourse)
  /\ req' = [req EXCEPT ![p].pc = "del"]
  /\ UNCHANGED <<store, cache, redisConnected, redisEvent, esConnected, doneVer, admins,
                 localStorage, auth>>

CreateDel(p, ok) ==
  /\ req[p].op = "create"
  /\ req[p].pc = "del"
  /\ cache' = ClearCache(cache, redisConnected, ok)
  /\ req' = [req EXCEPT ![p] = Respond(@, [status |-> 201, course |-> @.savedCourse])]
  /\ doneVer' = Max(doneVer, req[p].savedCourse._id)
  /\ UNCHANGED <<admins, localStorage, auth>>
  /\ UNCHANGED <<store, esIndex, redisConnected, redisEvent, esConnected>>

-----------------------------------------------------------------------------
(* POST /api/courses/upload *)

requiredFields == <<"title", "description", "category", "instructor", "duration">>

\* the check without the trim: a blank cell counts as present
MissingField_NoTrim(row, f) == Absent(row, f) \/ row[f] = ""

\* !row[field] || row[field].trim() === ''
MissingField(row, f) == Absent(row, f) \/ row[f] = "" \/ Trim(row[f]) = ""

\* requiredFields.filter(...): the missing fields, in the order of requiredFields
missingFields(row) == SelectSeq(requiredFields, LAMBDA f : MissingField(row, f))

\* `Row ${rowNum}: Missing required fields: ${missingFields.join(', ')}`
RowError(rowNum, row) ==
  "Row " \o ToString(rowNum) \o ": Missing required fields: " \o Join(missingFields(row), ", ")

\* the courseData object without the two enum checks: category and level go to the
\* schema as the row has them
CourseData_NoCoerce(row) ==
  [f \in {"title", "description", "category", "instructor", "duration", "level"}
         \union ({"course_id"} \cap DOMAIN row) |->
     CASE f = "course_id" -> Trim(ToUpperCase(row.course_id))
       [] f = "level" -> IF Absent(row, "level") \/ Trim(row.level) = "" THEN "Beginner"
                         ELSE Trim(row.level)
       [] f = "duration" -> ParseFloatOr0(row.duration)
       [] OTHER -> Trim(row[f])]

\* the courseData object prepared from a row that has its required fields
CourseData(row) ==
  LET category == Trim(row.category)
      level    == IF Absent(row, "level") \/ Trim(row.level) = "" THEN "Beginner"
                  ELSE Trim(row.level)
  IN  [f \in {"title", "description", "category", "instructor", "duration", "level"}
             \union ({"course_id"} \cap DOMAIN row) |->
         CASE f = "course_id" -> Trim(ToUpperCase(row.course_id))
           [] f = "category" -> IF category \in validCategories THEN category ELSE "Other"
           [] f = "level" -> IF level \in validLevels THEN level ELSE "Beginner"
           [] f = "duration" -> ParseFloatOr0(row.duration)
           [] OTHER -> Trim(row[f])]

RECURSIVE ValidRowNums(_, _)
\* the 1-based numbers i..Len(results) of the rows with no missing required field
ValidRowNums(results, i) ==
  IF i > Len(results) THEN <<>>
  ELSE (IF missingFields(results[i]) = <<>> THEN <<i>> ELSE <<>>)
       \o ValidRowNums(results, i + 1)

RECURSIVE InvalidRowNums(_, _)
\* the 1-based numbers i..Len(results) of the rows the validation loop skips
InvalidRowNums(results, i) ==
  IF i > Len(results) THEN <<>>
  ELSE (IF missingFields(results[i]) # <<>> THEN <<i>> ELSE <<>>)
       \o InvalidRowNums(results, i + 1)

RECURSIVE ValidationErrorsOf(_, _)
\* the errors array after the validation loop over rows i..Len(results)
ValidationErrorsOf(results, i) ==
  IF i > Len(results) THEN <<>>
  ELSE (IF missingFields(results[i]) # <<>> THEN <<RowError(i, results[i])>> ELSE <<>>)
       \o ValidationErrorsOf(results, i + 1)

\* the coursesToSave array after the validation loop
coursesToSave(results) ==
  LET nums == ValidRowNums(results, 1)
  IN  [k \in 1..Len(nums) |-> CourseData(results[nums[k]])]

\* the message pushed to saveErrors for the error course.save() threw
SaveError(courseData, res) ==
  IF res.code = 11000
    THEN "Course with ID " \o courseData.course_id \o " already exists"
    ELSE "Error saving course \"" \o courseData.title \o "\": validation failed"

\* the report counting every validated row as saved
UploadReport_CountsValid(r) ==
  [status |-> 200,
   total_rows |-> Len(r.file.rows),
   valid_courses |-> Len(r.toSave),
   saved_courses |-> Len(r.toSave),
   courses |-> r.savedCourses,
   errors |-> r.errors \o r.saveErrors,
   errorsFrom |-> InvalidRowNums(r.file.rows, 1) \o r.failedFrom]

\* the report listing only the errors of the save loop
UploadReport_SaveErrorsOnly(r) ==
  [status |-> 200,
   total_rows |-> Len(r.file.rows),
   valid_courses |-> Len(r.toSave),
   saved_courses |-> Len(r.savedCourses),
   courses |-> r.savedCourses,
   errors |-> r.saveErrors,
   errorsFrom |-> r.failedFrom]

\* the 200 response once the save loop is over; errorsFrom is history: the row each
\* entry of errors was written for
UploadReport(r) ==
  [status |-> 200,
   total_rows |-> Len(r.file.rows),
   valid_courses |-> Len(r.toSave),
   saved_courses |-> Len(r.savedCourses),
   courses |-> r.savedCourses,
   errors |-> r.errors \o r.saveErrors,
   errorsFrom |-> InvalidRowNums(r.file.rows, 1) \o r.failedFrom]

\* the highest _id the call has written, for doneVer
LastWritten(r) ==
  IF r.savedCourses = <<>> THEN 0 ELSE r.savedCourses[Len(r.savedCourses)]._id

\* the end of one iteration of the save loop: the next row, or the report
NextRow(p, r) ==
  IF r.i < Len(r.toSave)
    THEN /\ req' = [req EXCEPT ![p] = [r EXCEPT !.i = @ + 1, !.pc = "save"]]
         /\ UNCHANGED <<doneVer, admins, localStorage, auth>>
    ELSE /\ req' = [req EXCEPT ![p] = Respond(r, UploadReport(r))]
         /\ doneVer' = Max(doneVer, LastWritten(r))
         /\ UNCHANGED <<admins, localStorage, auth>>

\* the handler without its two early returns for "nothing to save": an upload with no
\* parsed row is answered with a report of zeros
UploadParse_ReportsNoRows(p, file, header) ==
  /\ req[p] = Idle
  /\ LET r == [op |-> "upload", pc |-> "save", file |-> file, header |-> header]
         toSave == coursesToSave(file.rows)
         errors == ValidationErrorsOf(file.rows, 1)
         begun  == r @@ [i |-> 1, toSave |-> toSave, errors |-> errors,
                         rowNums |-> ValidRowNums(file.rows, 1),
                         savedCourses |-> <<>>, saveErrors |-> <<>>,
                         savedFrom |-> <<>>, failedFrom |-> <<>>]
     IN  IF ~file.present THEN
           /\ req' = [req EXCEPT ![p] = Respond(r, [status |-> 400])]
           /\ UNCHANGED cache
         ELSE IF ~file.readable THEN
           /\ req' = [req EXCEPT ![p] = Respond(r, [status |-> 500])]
           /\ UNCHANGED cache
         ELSE IF Len(toSave) = 0 THEN
           /\ req' = [req EXCEPT ![p] = Respond(begun, UploadReport(begun))]
           /\ UNCHANGED cache
         ELSE
           /\ req' = [req EXCEPT ![p] = begun]
           /\ cache' = MarkSeen(cache, p)
  /\ UNCHANGED <<store, esIndex, redisConnected, redisEvent, esConnected, doneVer, admins,
                 localStorage, auth>>

\* multer, the CSV parse and the validation loop: everything before the first save.
\* file.present: a csvFile part was sent; file.readable: the stream parses;
\* file.rows: the parsed data rows.  savedFrom and failedFrom are history: the
\* row numbers behind savedCourses and saveErrors.
UploadParse(p, file, header) ==
  /\ req[p] = Idle
  /\ LET r == [op |-> "upload", pc |-> "save", file |-> file, header |-> header]
         toSave == coursesToSave(file.rows)
         errors == ValidationErrorsOf(file.rows, 1)
     IN  IF ~file.present THEN
           /\ req' = [req EXCEPT ![p] = Respond(r, [status |-> 400])]
           /\ UNCHANGED cache
         ELSE IF ~file.readable THEN
           /\ req' = [req EXCEPT ![p] = Respond(r, [status |-> 500])]
           /\ UNCHANGED cache
         ELSE IF Len(file.rows) = 0 THEN
           /\ req' = [req EXCEPT ![p] = Respond(r, [status |-> 400])]
           /\ UNCHANGED cache
         ELSE IF Len(toSave) = 0 THEN
           /\ req' = [req EXCEPT ![p] = Respond(r, [status |-> 400, errors |-> errors])]
           /\ UNCHANGED cache
         ELSE
           /\ req' = [req EXCEPT ![p] =
                        r @@ [i |-> 1, toSave |-> toSave, errors |-> errors,
                              rowNums |-> ValidRowNums(file.rows, 1),
                              savedCourses |-> <<>>, saveErrors |-> <<>>,
                              savedFrom |-> <<>>, failedFrom |-> <<>>]]
           /\ cache' = MarkSeen(cache, p)
  /\ UNCHANGED <<store, esIndex, redisConnected, redisEvent, esConnected, doneVer, admins,
                 localStorage, auth>>

\* the save loop with the try around the whole loop: the first refused insert ends it
UploadSave_AbortsBatch(p) ==
  /\ req[p].op = "upload"
  /\ req[p].pc = "save"
  /\ LET r    == req[p]
         data == r.toSave[r.i]
         res  == SaveCourse(store, data)
     IN  IF res.ok
           THEN /\ store' = Append(store, res.doc)
                /\ req' = [req EXCEPT ![p] =
                             [r EXCEPT !.pc = "index",
                                       !.savedCourses = Append(@, res.doc),
                                       !.savedFrom = Append(@, r.rowNums[r.i])]]
                /\ UNCHANGED <<doneVer, admins, localStorage, auth>>
           ELSE /\ UNCHANGED store
                /\ NextRow(p, [r EXCEPT !.saveErrors = Append(@, SaveError(data, res)),
                                        !.failedFrom = Append(@, r.rowNums[r.i]),
                                        !.i = Len(r.toSave)])
  /\ UNCHANGED <<esIndex, cache, redisConnected, redisEvent, esConnected>>

\* one iteration of the save loop up to its first await: new Course(courseData).save()
UploadSave(p) ==
  /\ req[p].op = "upload"
  /\ req[p].pc = "save"
  /\ LET r    == req[p]
         data == r.toSave[r.i]
         res  == SaveCourse(store, data)
     IN  IF res.ok
           THEN /\ store' = Append(store, res.doc)
                /\ req' = [req EXCEPT ![p] =
                             [r EXCEPT !.pc = "index",
                                       !.savedCourses = Append(@, res.doc),
                                       !.savedFrom = Append(@, r.rowNums[r.i])]]
                /\ UNCHANGED <<doneVer, admins, localStorage, auth>>
           ELSE /\ UNCHANGED store
                /\ NextRow(p, [r EXCEPT !.saveErrors = Append(@, SaveError(data, res)),
                                        !.failedFrom = Append(@, r.rowNums[r.i])])
  /\ UNCHANGED <<esIndex, cache, redisConnected, redisEvent, esConnected>>

\* indexCourse without its own try/catch: a failed index call lands in the catch of
\* the save loop and is reported as an error of the row
UploadIndex_FailureThrows(p, ok) ==
  /\ req[p].op = "upload"
  /\ req[p].pc = "index"
  /\ esIndex' = indexCourse(esIndex, esConnected, ok,
                            req[p].savedCourses[Len(req[p].savedCourses)])
  /\ IF esConnected /\ ~ok
       THEN NextRow(p, [req[p] EXCEPT !.saveErrors =
                          Append(@, "Error saving course \"" \o req[p].toSave[req[p].i].title
                                      \o "\": index failed")])
       ELSE NextRow(p, req[p])
  /\ UNCHANGED <<store, cache, redisConnected, redisEvent, esConnected>>

\* the rest of the iteration: indexCourse(savedCourse) when Elasticsearch is healthy
UploadIndex(p, ok) ==
  /\ req[p].op = "upload"
  /\ req[p].pc = "index"
  /\ esIndex' = indexCourse(esIndex, esConnected, ok,
                            req[p].savedCourses[Len(req[p].savedCourses)])
  /\ NextRow(p, req[p])
  /\ UNCHANGED <<store, cache, redisConnected, redisEvent, esConnected>>

-----------------------------------------------------------------------------
(* The environment: responses being collected, keys expiring, the Redis       *)
(* connection going down and coming back                                      *)

\* the caller has its response; the slot is free for the next request
Return(p) ==
  /\ Responded(p)
  /\ req' = [req EXCEPT ![p] = Idle]
  /\ cache' = Unmark(cache, p)
  /\ UNCHANGED <<store, esIndex, redisConnected, redisEvent, esConnected, doneVer, admins,
                 localStorage, auth>>

\* the TTL of the entry under key has run out
Expire(key) ==
  /\ key \in DOMAIN cache
  /\ cache' = [k \in DOMAIN cache \ {key} |-> cache[k]]
  /\ UNCHANGED <<store, esIndex, redisConnected, redisEvent, esConnected, req, doneVer,
                 admins, localStorage, auth>>

\* client.on('ready')
RedisReady ==
  /\ ~redisConnected
  /\ redisConnected' = TRUE
  /\ redisEvent' = "ready"
  /\ UNCHANGED <<store, esIndex, cache, esConnected, req, doneVer, admins, localStorage, auth>>

\* client.on('error') and client.on('end')
RedisError ==
  /\ redisConnected
  /\ redisConnected' = FALSE
  /\ redisEvent' = "error"
  /\ UNCHANGED <<store, esIndex, cache, esConnected, req, doneVer, admins, localStorage, auth>>

\* client.on('end'): the client has closed its connection for good
RedisEnd ==
  /\ redisEvent \in {"ready", "error"}
  /\ redisConnected' = FALSE
  /\ redisEvent' = "end"
  /\ UNCHANGED <<store, esIndex, cache, esConnected, req, doneVer, admins, localStorage, auth>>

\* RedisClient.connect(): the client created, its handlers registered, and
\* client.connect() awaited; it resolves once the client is ready, and when it rejects
\* the catch block clears the flag and rethrows
connect(p, ok) ==
  /\ req[p] = Idle
  /\ redisEvent = "none"
  /\ redisConnected' = ok
  /\ redisEvent' = IF ok THEN "ready" ELSE "error"
  /\ req' = [req EXCEPT ![p] =
               Respond([op |-> "redis.connect", pc |-> "await"],
                       IF ok THEN [returned |-> "client"] ELSE [thrown |-> "error"])]
  /\ UNCHANGED <<store, esIndex, cache, esConnected, doneVer, admins, localStorage, auth>>

\* RedisClient.get(key) as its caller sees it: the value, or null when the flag is
\* down, on a miss and when the command throws.  connected is history: the flag when
\* the call was made.
get(p, key, ok) ==
  /\ req[p] = Idle
  /\ req' = [req EXCEPT ![p] =
               Respond([op |-> "redis.get", pc |-> "await", key |-> key,
                        connected |-> redisConnected],
                       [returned |-> RedisGet(cache, redisConnected, ok, key)])]
  /\ UNCHANGED <<store, esIndex, cache, redisConnected, redisEvent, esConnected, doneVer,
                 admins, localStorage, auth>>

\* RedisClient.set(key, value, expiry): true once SETEX went through, false when the
\* flag is down or the command throws
set(p, key, value, expiry, ok) ==
  /\ req[p] = Idle
  /\ cache' = RedisSet(cache, redisConnected, ok, key, value, expiry, Len(store))
  /\ req' = [req EXCEPT ![p] =
               Respond([op |-> "redis.set", pc |-> "await", key |-> key,
                        connected |-> redisConnected],
                       [returned |-> redisConnected /\ ok])]
  /\ UNCHANGED <<store, esIndex, redisConnected, redisEvent, esConnected, doneVer, admins,
                 localStorage, auth>>

\* RedisClient.del(key): true once DEL went through, false when the flag is down or
\* the command throws
del(p, key, ok) ==
  /\ req[p] = Idle
  /\ cache' = RedisDel(cache, redisConnected, ok, key)
  /\ req' = [req EXCEPT ![p] =
               Respond([op |-> "redis.del", pc |-> "await", key |-> key,
                        connected |-> redisConnected],
                       [returned |-> redisConnected /\ ok])]
  /\ UNCHANGED <<store, esIndex, redisConnected, redisEvent, esConnected, doneVer, admins,
                 localStorage, auth>>

\* RedisClient.disconnect() up to await this.client.disconnect(); without a client it
\* does nothing
disconnect(p) ==
  /\ req[p] = Idle
  /\ req' = [req EXCEPT ![p] =
               IF redisEvent = "none"
                 THEN Respond([op |-> "redis.disconnect", pc |-> "await"],
                              [returned |-> "undefined"])
                 ELSE [op |-> "redis.disconnect", pc |-> "await"]]
  /\ UNCHANGED <<store, esIndex, cache, redisConnected, redisEvent, esConnected, doneVer,
                 admins, localStorage, auth>>

\* the rest of disconnect(): this.isConnected = false
disconnected(p) ==
  /\ req[p].op = "redis.disconnect"
  /\ req[p].pc = "await"
  /\ redisConnected' = FALSE
  /\ redisEvent' = "disconnect"
  /\ req' = [req EXCEPT ![p] = Respond(@, [returned |-> "undefined"])]
  /\ UNCHANGED <<store, esIndex, cache, esConnected, doneVer, admins, localStorage, auth>>

-----------------------------------------------------------------------------
(* src/contexts/AuthContext.tsx: the AuthProvider of the frontend and the      *)
(* localStorage it persists to                                                  *)

\* null; for a string also the empty one, which is as falsy
Null == ""

\* an empty localStorage
NoStorage == <<>>

\* useState(null), useState(null), useState(true): the provider before its effect ran.
\* loggedOut is history: logout has run and no login or signup has succeeded since.
Unmounted == [admin |-> Null, token |-> Null, isLoading |-> TRUE, loggedOut |-> FALSE]

-----------------------------------------------------------------------------
(* services/auth/server.js: POST /api/auth/login.  The handler is in the       *)
(* source; the Admin model it calls (models/Admin.js: isLocked,                *)
(* comparePassword, incLoginAttempts, resetLoginAttempts) is not, and is       *)
(* modelled from the documented behaviour: failed attempts are counted, the    *)
(* account locks after too many of them, a successful login clears the count.  *)

\* the collection of a deployment without admins
NoAdmins == <<>>

\* failed attempts after which the account is locked
MaxLoginAttempts == 3

\* admin.isLocked
isLocked(admin) == admin.locked

\* admin.comparePassword(password): the hash of the account matches
comparePassword(admin, password) == password = admin.password

\* admin.incLoginAttempts(): one more failed attempt on the stored account, which
\* locks once MaxLoginAttempts is reached
incLoginAttempts(as, email) ==
  [as EXCEPT ![email] = [@ EXCEPT !.loginAttempts = @ + 1,
                                  !.locked = @ \/ as[email].loginAttempts + 1 >= MaxLoginAttempts]]

\* admin.resetLoginAttempts(): the count cleared and the lock lifted
resetLoginAttempts(as, email) ==
  [as EXCEPT ![email] = [@ EXCEPT !.loginAttempts = 0, !.locked = FALSE]]

\* the handler comparing the password before it looks at the lock
LoginFind_NoLockCheck(p, body) ==
  /\ req[p] = Idle
  /\ LET r == [op |-> "login", pc |-> "compare", body |-> body]
     IN  req' = [req EXCEPT ![p] =
                   IF body.email = "" \/ body.password = "" THEN Respond(r, [status |-> 400])
                   ELSE IF body.email \notin DOMAIN admins THEN Respond(r, [status |-> 401])
                   ELSE IF ~admins[body.email].isActive THEN Respond(r, [status |-> 401])
                   ELSE r @@ [admin |-> admins[body.email]]]
  /\ UNCHANGED <<store, esIndex, cache, redisConnected, redisEvent, esConnected, doneVer,
                 admins, localStorage, auth>>

\* the handler up to Admin.findOne and the checks on the document found: 400 without
\* email or password, 401 for an unknown email, 423 for a locked account, 401 for a
\* deactivated one
LoginFind(p, body) ==
  /\ req[p] = Idle
  /\ LET r == [op |-> "login", pc |-> "compare", body |-> body]
     IN  req' = [req EXCEPT ![p] =
                   IF body.email = "" \/ body.password = "" THEN Respond(r, [status |-> 400])
                   ELSE IF body.email \notin DOMAIN admins THEN Respond(r, [status |-> 401])
                   ELSE IF isLocked(admins[body.email]) THEN Respond(r, [status |-> 423])
                   ELSE IF ~admins[body.email].isActive THEN Respond(r, [status |-> 401])
                   ELSE r @@ [admin |-> admins[body.email]]]
  /\ UNCHANGED <<store, esIndex, cache, redisConnected, redisEvent, esConnected, doneVer,
                 admins, localStorage, auth>>

\* await admin.comparePassword(password)
LoginCompare(p) ==
  /\ req[p].op = "login"
  /\ req[p].pc = "compare"
  /\ req' = [req EXCEPT ![p] =
               [@ EXCEPT !.pc = "update"]
                 @@ [isPasswordValid |-> comparePassword(@.admin, @.body.password)]]
  /\ UNCHANGED <<store, esIndex, cache, redisConnected, redisEvent, esConnected, doneVer,
                 admins, localStorage, auth>>

\* the rest of the handler: incLoginAttempts and 401, or resetLoginAttempts and the
\* token.  before is history: the stored account when the update ran.
LoginUpdate(p) ==
  /\ req[p].op = "login"
  /\ req[p].pc = "update"
  /\ LET email == req[p].body.email
         r     == req[p] @@ [before |-> admins[email]]
     IN  IF ~req[p].isPasswordValid
           THEN /\ admins' = incLoginAttempts(admins, email)
                /\ req' = [req EXCEPT ![p] = Respond(r, [status |-> 401])]
           ELSE /\ admins' = resetLoginAttempts(admins, email)
                /\ req' = [req EXCEPT ![p] = Respond(r, [status |-> 200, token |-> "issued"])]
  /\ UNCHANGED <<store, esIndex, cache, redisConnected, redisEvent, esConnected, doneVer,
                 localStorage, auth>>

\* the credentials sent: the email of the admin or an unknown one, the password of
\* the admin or another one, or a field left out
LoginBodies ==
  [email : {"", "ann@uni.edu", "bob@uni.edu"}, password : {"", "secret", "guess"}]

\* the auth service with one registered admin, active or deactivated
InitAuth ==
  /\ store = <<>>
  /\ esIndex = {}
  /\ cache = <<>>
  /\ redisConnected = FALSE
  /\ redisEvent = "none"
  /\ esConnected = FALSE
  /\ req = [p \in Procs |-> Idle]
  /\ doneVer = 0
  /\ \E active \in BOOLEAN :
       admins = [email \in {"ann@uni.edu"} |->
                   [password |-> "secret", loginAttempts |-> 0, locked |-> FALSE,
                    isActive |-> active]]
  /\ localStorage = NoStorage
  /\ auth = Unmounted

\* logins in both slots
NextAuth ==
  \/ \E p \in Procs, body \in LoginBodies : LoginFind(p, body)
  \/ \E p \in Procs : LoginCompare(p)
  \/ \E p \in Procs : LoginUpdate(p)
  \/ \E p \in Procs : Return(p)

SpecAuth == InitAuth /\ [][NextAuth]_vars

-----------------------------------------------------------------------------
(* services/auth/server.js: POST /api/auth/signup.  Admin.save() is the model's *)
(* (models/Admin.js, not in the source): username and email are required and    *)
(* unique, so an insert that repeats either is refused by the unique index      *)
(* with a duplicate-key error, which is not a ValidationError.                  *)

\* shortest password the handler accepts
PasswordMinLen == 6

\* an admin in the collection repeats the email or the username
AdminExists(as, email, username) ==
  \E e \in DOMAIN as : e = email \/ as[e].username = username

\* admin.save(): "ok" with the collection after the insert, or "duplicate" when a
\* unique index refuses it
SaveAdmin(as, body) ==
  IF AdminExists(as, body.email, body.username)
    THEN [outcome |-> "duplicate", admins |-> as]
    ELSE [outcome |-> "ok",
          admins |-> as @@ (body.email :>
                      [username |-> body.username, password |-> body.password,
                       loginAttempts |-> 0, locked |-> FALSE, isActive |-> TRUE])]

\* the handler up to Admin.findOne({$or: [{email}, {username}]}): 400 for a missing
\* field or a short password, 409 when an admin with the email or username exists
SignupFind(p, body) ==
  /\ req[p] = Idle
  /\ LET r == [op |-> "signup", pc |-> "save", body |-> body]
     IN  req' = [req EXCEPT ![p] =
                   IF body.username = "" \/ body.email = "" \/ body.password = ""
                     THEN Respond(r, [status |-> 400])
                   ELSE IF Len(body.password) < PasswordMinLen
                     THEN Respond(r, [status |-> 400])
                   ELSE IF AdminExists(admins, body.email, body.username)
                     THEN Respond(r, [status |-> 409])
                   ELSE r]
  /\ UNCHANGED <<store, esIndex, cache, redisConnected, redisEvent, esConnected, doneVer,
                 admins, localStorage, auth>>

\* await admin.save() and the rest of the handler: 201 with the token, or the catch
\* block, which answers 500 to every error that is not a ValidationError
SignupSave(p) ==
  /\ req[p].op = "signup"
  /\ req[p].pc = "save"
  /\ LET saved == SaveAdmin(admins, req[p].body)
     IN  /\ admins' = saved.admins
         /\ req' = [req EXCEPT ![p] =
                      IF saved.outcome = "ok"
                        THEN Respond(@, [status |-> 201, token |-> "issued"])
                        ELSE Respond(@, [status |-> 500])]
  /\ UNCHANGED <<store, esIndex, cache, redisConnected, redisEvent, esConnected, doneVer,
                 localStorage, auth>>

\* the registrations sent: two usernames, two emails, a password long enough or too
\* short, or a field left out
SignupBodies ==
  [username : {"", "ann", "bob"}, email : {"", "ann@uni.edu", "bob@uni.edu"},
   password : {"", "short", "secret"}]

\* the auth service before anyone has registered
InitSignup ==
  /\ store = <<>>
  /\ esIndex = {}
  /\ cache = <<>>
  /\ redisConnected = FALSE
  /\ redisEvent = "none"
  /\ esConnected = FALSE
  /\ req = [p \in Procs |-> Idle]
  /\ doneVer = 0
  /\ admins = NoAdmins
  /\ localStorage = NoStorage
  /\ auth = Unmounted

\* signups in both slots
NextSignup ==
  \/ \E p \in Procs, body \in SignupBodies : SignupFind(p, body)
  \/ \E p \in Procs : SignupSave(p)
  \/ \E p \in Procs : Return(p)

SpecSignup == InitSignup /\ [][NextSignup]_vars

-----------------------------------------------------------------------------
(* src/contexts/AuthContext.tsx: initializeAuth, login, signup and logout.     *)
(* Each async function is split at its await; the setState calls of one         *)
(* continuation are applied together, as React batches them into one render.    *)

\* const isAuthenticated = !!admin && !!token
isAuthenticated(a) == a.admin # Null /\ a.token # Null

\* localStorage.getItem(key): null for a key that is not stored
getItem(ls, key) == IF key \in DOMAIN ls THEN ls[key] ELSE Null

\* localStorage.setItem(key, value)
setItem(ls, key, value) == (key :> value) @@ ls

\* localStorage.removeItem(key)
removeItem(ls, key) == [k \in DOMAIN ls \ {key} |-> ls[k]]

\* the admins the auth service answers with, each by its username
AdminData == {"ann", "bob"}

\* JSON.stringify(adminData)
JSONStringify(adminData) == "{" \o adminData \o "}"

\* JSON.parse(text): <<the object>>, or <<>> for the SyntaxError it throws
JSONParse(text) ==
  IF \E adminData \in AdminData : JSONStringify(adminData) = text
    THEN <<CHOOSE adminData \in AdminData : JSONStringify(adminData) = text>>
    ELSE <<>>

\* the token the auth service issues to an admin
TokenFor(adminData) == "jwt-" \o adminData

\* both keys removed, as the else branch and the catch of initializeAuth and logout do
ClearStorage(ls) == removeItem(removeItem(ls, "admin_token"), "admin_data")

\* the effect of the provider being mounted
Mounting == [op |-> "initializeAuth", pc |-> "start"]

\* initializeAuth up to await authApi.verifyToken(storedToken); with nothing stored it
\* goes straight to the finally block
InitializeAuthRead(p) ==
  /\ req[p] = Mounting
  /\ LET storedToken == getItem(localStorage, "admin_token")
         storedAdmin == getItem(localStorage, "admin_data")
     IN  IF storedToken # Null /\ storedAdmin # Null
           THEN /\ req' = [req EXCEPT ![p] = [@ EXCEPT !.pc = "verify"]
                            @@ [storedToken |-> storedToken, storedAdmin |-> storedAdmin]]
                /\ UNCHANGED auth
           ELSE /\ req' = [req EXCEPT ![p] = Respond(@, [success |-> FALSE])]
                /\ auth' = [auth EXCEPT !.isLoading = FALSE]
  /\ UNCHANGED <<store, esIndex, cache, redisConnected, redisEvent, esConnected, doneVer,
                 admins, localStorage>>

\* the rest of initializeAuth once the verification has answered: the stored token
\* and admin become the state, or the storage is cleared (token refused, or
\* JSON.parse throwing after setToken); isLoading ends either way
InitializeAuthVerified(p, success) ==
  /\ req[p].op = "initializeAuth"
  /\ req[p].pc = "verify"
  /\ LET parsed == JSONParse(req[p].storedAdmin)
     IN  /\ auth' = IF ~success THEN [auth EXCEPT !.isLoading = FALSE]
                    ELSE IF parsed = <<>>
                      THEN [auth EXCEPT !.token = req[p].storedToken, !.isLoading = FALSE]
                    ELSE [auth EXCEPT !.token = req[p].storedToken, !.admin = parsed[1],
                                      !.isLoading = FALSE]
         /\ localStorage' = IF success /\ parsed # <<>> THEN localStorage
                            ELSE ClearStorage(localStorage)
         /\ req' = [req EXCEPT ![p] = Respond(@, [success |-> success /\ parsed # <<>>])]
  /\ UNCHANGED <<store, esIndex, cache, redisConnected, redisEvent, esConnected, doneVer,
                 admins>>

\* login and signup up to await authApi.login / authApi.signup
SignInCall(p, op, adminData) ==
  /\ req[p] = Idle
  /\ req' = [req EXCEPT ![p] = [op |-> op, pc |-> "await", adminData |-> adminData]]
  /\ auth' = [auth EXCEPT !.isLoading = TRUE]
  /\ UNCHANGED <<store, esIndex, cache, redisConnected, redisEvent, esConnected, doneVer,
                 admins, localStorage>>

\* the rest of login and signup once the service has answered: on success the token
\* and the admin are stored and become the state; isLoading ends either way
SignInAnswered(p, success) ==
  /\ req[p].op \in {"frontLogin", "frontSignup"}
  /\ req[p].pc = "await"
  /\ LET adminData == req[p].adminData
         authToken == TokenFor(adminData)
     IN  IF success
           THEN /\ localStorage' = setItem(setItem(localStorage, "admin_token", authToken),
                                           "admin_data", JSONStringify(adminData))
                /\ auth' = [admin |-> adminData, token |-> authToken, isLoading |-> FALSE,
                            loggedOut |-> FALSE]
           ELSE /\ localStorage' = localStorage
                /\ auth' = [auth EXCEPT !.isLoading = FALSE]
  /\ req' = [req EXCEPT ![p] = Respond(@, [success |-> success])]
  /\ UNCHANGED <<store, esIndex, cache, redisConnected, redisEvent, esConnected, doneVer,
                 admins>>

\* logout: the storage and the state cleared in one go
logout ==
  /\ localStorage' = ClearStorage(localStorage)
  /\ auth' = [auth EXCEPT !.admin = Null, !.token = Null, !.loggedOut = TRUE]
  /\ UNCHANGED <<store, esIndex, cache, redisConnected, redisEvent, esConnected, req, doneVer,
                 admins>>

\* what a browser can hold when the page loads: nothing, the token and admin of an
\* earlier session, or an admin_data that is not JSON
StoredSessions ==
  {NoStorage,
   [admin_token |-> TokenFor("ann"), admin_data |-> JSONStringify("ann")],
   [admin_token |-> TokenFor("ann"), admin_data |-> "{"]}

\* the page loading: the provider mounted, its effect about to run in slot 1
InitFront ==
  /\ store = <<>>
  /\ esIndex = {}
  /\ cache = <<>>
  /\ redisConnected = FALSE
  /\ redisEvent = "none"
  /\ esConnected = FALSE
  /\ req = [p \in Procs |-> IF p = 1 THEN Mounting ELSE Idle]
  /\ doneVer = 0
  /\ admins = NoAdmins
  /\ localStorage \in StoredSessions
  /\ auth = Unmounted

\* the start-up verification with logins, signups and logouts around it
NextFront ==
  \/ \E p \in Procs : InitializeAuthRead(p)
  \/ \E p \in Procs, success \in BOOLEAN : InitializeAuthVerified(p, success)
  \/ \E p \in Procs, op \in {"frontLogin", "frontSignup"}, adminData \in AdminData :
       SignInCall(p, op, adminData)
  \/ \E p \in Procs, success \in BOOLEAN : SignInAnswered(p, success)
  \/ logout
  \/ \E p \in Procs : Return(p)

SpecFront == InitFront /\ [][NextFront]_vars

-----------------------------------------------------------------------------
(* Requests the model sends *)

GoodRow(id) ==
  [course_id |-> id, title |-> "Intro", description |-> "An intro course",
   category |-> "Programming", instructor |-> "Ann", duration |-> "10"]

\* rows of an upload: two ids (the lower-case one also the id of the concurrent
\* create), a blank title, a duration that is no number, and a row without
\* description and duration
Rows ==
  { GoodRow("cs1"), GoodRow("CS2"),
    [GoodRow("CS2") EXCEPT !.title = " "],
    [GoodRow("CS2") EXCEPT !.duration = "abc"],
    [course_id |-> "CS2", title |-> "Intro", category |-> "Cooking", instructor |-> "Ann",
     description |-> ""] }

Batches == UNION {[1..n -> Rows] : n \in 1..MaxRows}

Upload(rows) == [present |-> TRUE, readable |-> TRUE, rows |-> rows]
NoFile == [present |-> FALSE, readable |-> FALSE, rows |-> <<>>]
BrokenFile == [present |-> TRUE, readable |-> FALSE, rows |-> <<>>]

\* the uploads of the whole-service specification
SmallFiles == {NoFile, Upload(<<GoodRow("CS2")>>),
               Upload(<<[GoodRow("CS2") EXCEPT !.title = " "], GoodRow("cs1")>>)}

Files == {NoFile, BrokenFile, Upload(<<>>)} \union {Upload(b) : b \in Batches}

\* Authorization headers: none, a scheme without token, a token the auth service
\* never issued, a token it issued
Headers == {<<>>, <<"Bearer">>, <<"Bearer", "forged">>, <<"Bearer", "issued">>}

\* the tokens the auth service would verify
ValidTokens == {"issued"}

GoodBody(id) ==
  [course_id |-> id, title |-> "Intro", description |-> "An intro course",
   category |-> "Programming", instructor |-> "Ann", duration |-> 10]

Bodies ==
  { GoodBody("cs1"), GoodBody("CS2") @@ [status |-> "draft"],
    [GoodBody("CS2") EXCEPT !.title = "ab"] }

ListQueries == { <<>> }

SearchQueries == { [q |-> " intro"], [q |-> " "], [q |-> ""] }

\* a course_id, and the ObjectId of the first document of the collection
SingleIds == { "cs1" }
ObjectIds == { "1" }

-----------------------------------------------------------------------------
(* The service after initializeServices, taking requests *)

Init ==
  /\ store = <<>>
  /\ esIndex = {}
  /\ cache = <<>>
  /\ redisConnected \in BOOLEAN
  /\ redisEvent = IF redisConnected THEN "ready" ELSE "error"
  /\ esConnected \in BOOLEAN
  /\ redisConnected = FALSE => esConnected = FALSE
  /\ req = [p \in Procs |-> Idle]
  /\ doneVer = 0
  /\ admins = NoAdmins
  /\ localStorage = NoStorage
  /\ auth = Unmounted

\* the reads answered from the store
StoreReads(p) ==
  \/ \E q \in ListQueries, ok \in BOOLEAN : ListGet(p, q, ok)
  \/ ListQuery(p)
  \/ \E ok \in BOOLEAN : ListSet(p, ok)
  \/ \E id \in SingleIds \union ObjectIds, ok \in BOOLEAN : SingleGet(p, id, ok)
  \/ SingleQuery(p)
  \/ \E ok \in BOOLEAN : SingleSet(p, ok)

\* the keyword search, answered from the index, and the statistics
IndexReads(p) ==
  \/ \E q \in SearchQueries, ok \in BOOLEAN : SearchGet(p, q, ok)
  \/ \E ok \in BOOLEAN : SearchQuery(p, ok)
  \/ \E ok \in BOOLEAN : SearchSet(p, ok)
  \/ \E ok \in BOOLEAN : StatsGet(p, ok)
  \/ StatsQuery(p)
  \/ \E ok \in BOOLEAN : StatsSet(p, ok)

Creates(p, bodies, headers) ==
  \/ \E body \in bodies, header \in headers : CreateSave(p, body, header)
  \/ \E ok \in BOOLEAN : CreateIndex(p, ok)
  \/ \E ok \in BOOLEAN : CreateDel(p, ok)

Uploads(p, files, headers) ==
  \/ \E file \in files, header \in headers : UploadParse(p, file, header)
  \/ UploadSave(p)
  \/ \E ok \in BOOLEAN : UploadIndex(p, ok)

Environment ==
  \/ \E p \in Procs : Return(p)
  \/ \E key \in DOMAIN cache : Expire(key)
  \/ RedisReady
  \/ RedisError

\* the service with a reader of the store in slot 1 and a writer in slot 2
Next ==
  \/ StoreReads(1)
  \/ Creates(2, Bodies, Headers)
  \/ Uploads(2, SmallFiles, {<<>>, <<"Bearer", "issued">>})
  \/ Environment

Spec == Init /\ [][Next]_vars

\* the same service started against a Redis that still holds single-course entries of
\* an earlier deployment: the cache outlives both the process and the collection
StaleCourse(id) ==
  [_id |-> 9, course_id |-> ToUpperCase(id), title |-> "Outdated",
   description |-> "An earlier course", category |-> "Other", instructor |-> "Bob",
   duration |-> 1, level |-> "Beginner", status |-> "published"]

InitSeeded ==
  /\ store = <<>>
  /\ esIndex = {}
  /\ \E seeded \in SUBSET SingleIds :
       cache = [k \in {SingleKey(id) : id \in seeded} |->
                  [value |-> StaleCourse(CHOOSE id \in seeded : SingleKey(id) = k),
                   ttl |-> SingleTTL, ver |-> 0, seenBy |-> {}]]
  /\ redisConnected \in BOOLEAN
  /\ redisEvent = IF redisConnected THEN "ready" ELSE "error"
  /\ esConnected \in BOOLEAN
  /\ redisConnected = FALSE => esConnected = FALSE
  /\ req = [p \in Procs |-> Idle]
  /\ doneVer = 0
  /\ admins = NoAdmins
  /\ localStorage = NoStorage
  /\ auth = Unmounted

NextSeeded ==
  \/ \E id \in SingleIds \union ObjectIds, ok \in BOOLEAN : SingleGet(1, id, ok)
  \/ SingleQuery(1)
  \/ \E ok \in BOOLEAN : SingleSet(1, ok)
  \/ Creates(2, Bodies, Headers)
  \/ Environment

SpecSeeded == InitSeeded /\ [][NextSeeded]_vars

\* the service with a reader of the index and the statistics in slot 1
NextIndex ==
  \/ IndexReads(1)
  \/ Creates(2, Bodies, {<<>>, <<"Bearer", "issued">>})
  \/ Uploads(2, SmallFiles, {<<"Bearer", "issued">>})
  \/ Environment

SpecIndex == Init /\ [][NextIndex]_vars

\* the ingestion pipeline under load: slot 1 uploads any file while slot 2 creates
NextIngest ==
  \/ Uploads(1, Files, {<<"Bearer", "issued">>})
  \/ Creates(2, {GoodBody("cs1")}, {<<"Bearer", "issued">>})
  \/ \E p \in {1, 2} : Return(p)

InitIngest == Init /\ redisConnected

SpecIngest == InitIngest /\ [][NextIngest]_vars

\* the four reads in slot 1 while slot 2 creates one course
NextReads ==
  \/ StoreReads(1)
  \/ IndexReads(1)
  \/ Creates(2, {GoodBody("cs1")}, {<<"Bearer", "issued">>})
  \/ Environment

SpecReads == Init /\ [][NextReads]_vars

\* longest upload of the rows below, in data rows
MaxPlainRows == 2

\* a row of the CSV without the course_id column
NoIdRow ==
  [title |-> "Intro", description |-> "An intro course", category |-> "Programming",
   instructor |-> "Ann", duration |-> "10"]

\* rows with every required field: no course_id column, an empty course_id cell, a
\* category and a level outside the enums, and both under the id of the create
PlainRows ==
  { NoIdRow,
    GoodRow(""),
    [GoodRow("CS3") EXCEPT !.category = "Cooking"],
    GoodRow("CS4") @@ [level |-> "Expert"],
    [GoodRow("cs1") EXCEPT !.category = "programming"] @@ [level |-> " "] }

PlainFiles == {Upload(b) : b \in UNION {[1..n -> PlainRows] : n \in 1..MaxPlainRows}}

\* a create without course_id, and one with
PlainBodies ==
  { [title |-> "Intro", description |-> "An intro course", category |-> "Programming",
     instructor |-> "Ann", duration |-> 10],
    GoodBody("cs1") }

\* uploads of complete rows in slot 1 while slot 2 creates
NextPlain ==
  \/ Uploads(1, PlainFiles, {<<"Bearer", "issued">>})
  \/ Creates(2, PlainBodies, {<<"Bearer", "issued">>})
  \/ \E p \in Procs : Return(p)

SpecPlain == InitIngest /\ [][NextPlain]_vars

\* the bodies of two clients creating at once: one id in two spellings, a second id,
\* and a body the schema refuses
CreateBodies ==
  { GoodBody("cs1"), GoodBody(" CS1"), GoodBody("CS2"), [GoodBody("cs1") EXCEPT !.title = "ab"] }

\* two creates in flight at once
NextCreate ==
  \/ Creates(1, CreateBodies, {<<>>, <<"Bearer", "issued">>})
  \/ Creates(2, CreateBodies, {<<>>, <<"Bearer", "issued">>})
  \/ \E p \in Procs : Return(p)
  \/ RedisReady
  \/ RedisError

SpecCreate == Init /\ [][NextCreate]_vars

-----------------------------------------------------------------------------
(* Startup: initializeServices and the sync of the store into the index.  The  *)
(* server listens only once initializeServices has resolved, so no request     *)
(* handler runs during it.                                                     *)

\* Course.find({ status: 'published' }).limit(1000)
SyncLimit == 1000

\* the courses the sync reads, in insertion order
SyncCourses(st) == SkipLimit(SelectSeq(st, LAMBDA d : d.status = "published"), 0, SyncLimit)

RECURSIVE SyncLoop(_, _, _, _, _)
\* for (const course of courses) await indexCourse(course), over positions lo..hi in
\* order; failed are the positions whose index call throws.  The range is halved, and
\* the first half is evaluated (its size taken) before the second half starts, only
\* to keep the evaluation shallow.
SyncLoop(ix, courses, lo, hi, failed) ==
  IF lo > hi THEN ix
  ELSE IF lo = hi THEN indexCourse(ix, TRUE, lo \notin failed, courses[lo])
  ELSE LET mid  == (lo + hi) \div 2
           left == SyncLoop(ix, courses, lo, mid, failed)
       IN  IF Cardinality(left) >= 0
             THEN SyncLoop(left, courses, mid + 1, hi, failed)
             ELSE left

\* syncCoursesToElasticsearch: skipped when Elasticsearch is not healthy
syncCoursesToElasticsearch(ix, connected, st, failed) ==
  IF ~connected THEN ix
  ELSE LET courses == SyncCourses(st)
       IN  SyncLoop(ix, courses, 1, Len(courses), failed)

\* the process of slot p before initializeServices; prev is history: what the
\* previous run of the process left behind
Booting(prev) == [op |-> "boot", pc |-> "boot", prev |-> prev]

\* the server of slot p is listening
Up(p) == req[p].op = "boot" /\ req[p].pc = "listen"

\* initializeServices: Redis connect (a throw skips the rest), Elasticsearch connect
\* (a failure is swallowed), then the sync.  redisUp, esUp, swept, failed, ver and ix
\* are history: whether Redis and Elasticsearch were reachable, whether the sync ran,
\* which of its index calls failed, the size of the store and the index it left.
initializeServices(p, redisOk, esOk, failed) ==
  /\ req[p].op = "boot"
  /\ req[p].pc = "boot"
  /\ LET es == redisOk /\ esOk
         ix == syncCoursesToElasticsearch(esIndex, es, store, failed)
     IN  /\ redisConnected' = redisOk
         /\ redisEvent' = IF redisOk THEN "ready" ELSE "error"
         /\ esConnected' = es
         /\ esIndex' = ix
         /\ req' = [req EXCEPT ![p] =
                      [@ EXCEPT !.pc = "listen"]
                        @@ [redisUp |-> redisOk, esUp |-> esOk, swept |-> es,
                            failed |-> IF es THEN failed \cap DOMAIN SyncCourses(store) ELSE {},
                            ver |-> Len(store), ix |-> ix]]
  /\ UNCHANGED <<store, cache, doneVer, admins, localStorage, auth>>

\* the process ends and is started again: requests in flight are lost, the store, the
\* index and Redis keep what they hold
Restart(p) ==
  /\ Up(p)
  /\ req' = [q \in Procs |->
               IF q = p
                 THEN Booting(<<[swept |-> req[p].swept, failed |-> req[p].failed,
                                 ver |-> req[p].ver, ix |-> req[p].ix]>>)
                 ELSE Idle]
  /\ redisConnected' = FALSE
  /\ redisEvent' = "none"
  /\ esConnected' = FALSE
  /\ cache' = [k \in DOMAIN cache |-> [cache[k] EXCEPT !.seenBy = {}]]
  /\ UNCHANGED <<store, esIndex, doneVer, admins, localStorage, auth>>

\* a collection of n published courses
Catalog(n) ==
  [i \in 1..n |-> CastCourse(GoodBody("c" \o ToString(i))) @@ [_id |-> i]]

\* list requests for a page of a given size
PagedLists == { [page |-> "1", limit |-> "2"], [page |-> "2", limit |-> "1"] }

\* search requests for a page of a given size
PagedSearches == { [q |-> "intro", page |-> "2", size |-> "1"], [q |-> "intro", size |-> "2"] }

\* pages of the list and of the search read in slot 1 while slot 2 creates a course
NextPages ==
  \/ \E q \in PagedLists, ok \in BOOLEAN : ListGet(1, q, ok)
  \/ ListQuery(1)
  \/ \E ok \in BOOLEAN : ListSet(1, ok)
  \/ \E q \in PagedSearches, ok \in BOOLEAN : SearchGet(1, q, ok)
  \/ \E ok \in BOOLEAN : SearchQuery(1, ok)
  \/ \E ok \in BOOLEAN : SearchSet(1, ok)
  \/ Creates(2, {GoodBody("cs1")}, {<<"Bearer", "issued">>})
  \/ \E p \in Procs : Return(p)

\* the service listening with Redis and Elasticsearch connected, on an empty
\* collection or on one of two published courses already synced into the index
InitPages ==
  /\ store \in {<<>>, Catalog(2)}
  /\ esIndex = syncCoursesToElasticsearch({}, TRUE, store, {})
  /\ cache = <<>>
  /\ redisConnected = TRUE
  /\ redisEvent = "ready"
  /\ esConnected = TRUE
  /\ req = [p \in Procs |-> Idle]
  /\ doneVer = Len(store)
  /\ admins = NoAdmins
  /\ localStorage = NoStorage
  /\ auth = Unmounted

SpecPages == InitPages /\ [][NextPages]_vars

\* list requests that differ in a filter being left out or given as the literal the
\* key puts in its place
KeyLists == { <<>>, [category |-> "all"], [search |-> "none"] }

\* searches whose values contain the separator of the key
KeySearches == { [q |-> "c:d"], [q |-> "c", category |-> "d:all"] }

\* lists and searches in both slots over a collection nobody writes to
NextKeys ==
  \/ \E p \in Procs, q \in KeyLists, ok \in BOOLEAN : ListGet(p, q, ok)
  \/ \E p \in Procs : ListQuery(p)
  \/ \E p \in Procs, ok \in BOOLEAN : ListSet(p, ok)
  \/ \E p \in Procs, q \in KeySearches, ok \in BOOLEAN : SearchGet(p, q, ok)
  \/ \E p \in Procs : SearchQuery(p, TRUE)
  \/ \E p \in Procs, ok \in BOOLEAN : SearchSet(p, ok)
  \/ \E p \in Procs : Return(p)
  \/ \E key \in DOMAIN cache : Expire(key)

SpecKeys == InitPages /\ [][NextKeys]_vars

\* one course_id in two spellings, and one query with and without a leading blank
NormIds == { "c1", "C1", "1" }
NormSearches == { [q |-> "intro"], [q |-> " intro"] }

\* single reads and searches in both slots over a collection nobody writes to
NextNorm ==
  \/ \E p \in Procs, id \in NormIds, ok \in BOOLEAN : SingleGet(p, id, ok)
  \/ \E p \in Procs : SingleQuery(p)
  \/ \E p \in Procs, ok \in BOOLEAN : SingleSet(p, ok)
  \/ \E p \in Procs, q \in NormSearches, ok \in BOOLEAN : SearchGet(p, q, ok)
  \/ \E p \in Procs : SearchQuery(p, TRUE)
  \/ \E p \in Procs, ok \in BOOLEAN : SearchSet(p, ok)
  \/ \E p \in Procs : Return(p)
  \/ \E key \in DOMAIN cache : Expire(key)

SpecNorm == InitPages /\ [][NextNorm]_vars

\* the query every course of the catalog matches
FlakySearches == { [q |-> "intro"] }

\* searches in both slots over an index nobody writes to, each call of the
\* Elasticsearch client succeeding or throwing
NextFlaky ==
  \/ \E p \in Procs, q \in FlakySearches, ok \in BOOLEAN : SearchGet(p, q, ok)
  \/ \E p \in Procs, ok \in BOOLEAN : SearchQuery(p, ok)
  \/ \E p \in Procs, ok \in BOOLEAN : SearchSet(p, ok)
  \/ \E p \in Procs : Return(p)
  \/ \E key \in DOMAIN cache : Expire(key)
  \/ RedisReady
  \/ RedisError

SpecFlaky == InitPages /\ [][NextFlaky]_vars

\* the keys and the value the callers of the adapter use
AdapterKeys == { getCacheKey("single", <<"1">>), getCacheKey("stats", <<"overview">>) }
AdapterValues == { "value" }

\* the module config/redis.js just loaded: new RedisClient(), no client yet
InitAdapter ==
  /\ store = <<>>
  /\ esIndex = {}
  /\ cache = <<>>
  /\ redisConnected = FALSE
  /\ redisEvent = "none"
  /\ esConnected = FALSE
  /\ req = [p \in Procs |-> Idle]
  /\ doneVer = 0
  /\ admins = NoAdmins
  /\ localStorage = NoStorage
  /\ auth = Unmounted

\* the adapter called from both slots while the client connects, loses and regains
\* its connection, ends and is disconnected; the client reconnects, and becomes
\* ready again, only after an error
NextAdapter ==
  \/ \E p \in Procs, ok \in BOOLEAN : connect(p, ok)
  \/ \E p \in Procs, key \in AdapterKeys, ok \in BOOLEAN : get(p, key, ok)
  \/ \E p \in Procs, key \in AdapterKeys, value \in AdapterValues, ok \in BOOLEAN :
       set(p, key, value, SingleTTL, ok)
  \/ \E p \in Procs, key \in AdapterKeys, ok \in BOOLEAN : del(p, key, ok)
  \/ \E p \in Procs : disconnect(p)
  \/ \E p \in Procs : disconnected(p)
  \/ redisEvent = "error" /\ RedisReady
  \/ RedisError
  \/ RedisEnd
  \/ \E p \in Procs : Return(p)

SpecAdapter == InitAdapter /\ [][NextAdapter]_vars

-----------------------------------------------------------------------------
(* services/ai-recommendations/server.js: POST /api/recommendations.  Scores are *)
(* in hundredths; the fields of a recommendation that no step of the handler    *)
(* reads (instructor, rating, reasons) are left out.                             *)

LowerChar(c) ==
  CASE c = "A" -> "a" [] c = "B" -> "b" [] c = "C" -> "c" [] c = "D" -> "d"
    [] c = "E" -> "e" [] c = "F" -> "f" [] c = "G" -> "g" [] c = "H" -> "h"
    [] c = "I" -> "i" [] c = "J" -> "j" [] c = "K" -> "k" [] c = "L" -> "l"
    [] c = "M" -> "m" [] c = "N" -> "n" [] c = "O" -> "o" [] c = "P" -> "p"
    [] c = "Q" -> "q" [] c = "R" -> "r" [] c = "S" -> "s" [] c = "T" -> "t"
    [] c = "U" -> "u" [] c = "V" -> "v" [] c = "W" -> "w" [] c = "X" -> "x"
    [] c = "Y" -> "y" [] c = "Z" -> "z" [] OTHER -> c

RECURSIVE toLowerCase(_)
\* String.prototype.toLowerCase
toLowerCase(s) ==
  IF s = "" THEN ""
  ELSE LowerChar(SubSeq(s, 1, 1)) \o toLowerCase(SubSeq(s, 2, Len(s)))

\* String.prototype.includes
includes(s, t) ==
  \E i \in 1..(Len(s) - Len(t) + 1) : SubSeq(s, i, i + Len(t) - 1) = t

\* the service's own getCacheKey
aiCacheKey(prefix, params) == "ai:" \o prefix \o ":" \o Join(params, ":")

RecommendationsTTL == 3600

MaxRecommendations == 6

MaxRealCourses == 3

\* the offset at which real courses are written into the list
RealOffset == 3

baseRecommendations ==
  << [title |-> "Complete Web Development Bootcamp",
      description |-> "Learn HTML, CSS, JavaScript, React, and Node.js in one comprehensive course",
      category |-> "Web Development", duration |-> 40, level |-> "Beginner",
      relevance_score |-> 95],
     [title |-> "Python for Data Science",
      description |-> "Master Python programming and data analysis with pandas, numpy, and matplotlib",
      category |-> "Data Science", duration |-> 25, level |-> "Intermediate",
      relevance_score |-> 88],
     [title |-> "Machine Learning Fundamentals",
      description |-> "Introduction to ML algorithms, supervised and unsupervised learning",
      category |-> "Machine Learning", duration |-> 30, level |-> "Intermediate",
      relevance_score |-> 82],
     [title |-> "Cloud Computing with AWS",
      description |-> "Learn Amazon Web Services, EC2, S3, Lambda, and cloud architecture",
      category |-> "Cloud Computing", duration |-> 35, level |-> "Intermediate",
      relevance_score |-> 79],
     [title |-> "UI/UX Design Masterclass",
      description |-> "Design user-centered interfaces with Figma, Adobe XD, and design principles",
      category |-> "UI/UX Design", duration |-> 20, level |-> "Beginner",
      relevance_score |-> 75],
     [title |-> "JavaScript Advanced Concepts",
      description |-> "Deep dive into closures, promises, async/await, and modern ES6+ features",
      category |-> "Programming", duration |-> 18, level |-> "Advanced",
      relevance_score |-> 73] >>

\* the preferences of a request body, with the defaults of the destructuring
Preferences(body) ==
  [topics |-> IF "topics" \in DOMAIN body THEN body.topics ELSE <<>>,
   skill_level |-> IF "skill_level" \in DOMAIN body THEN body.skill_level ELSE "Beginner",
   preferred_duration |->
     IF "preferred_duration" \in DOMAIN body THEN body.preferred_duration ELSE "any"]

validSkillLevels == {"Beginner", "Intermediate", "Advanced", "any"}

\* durationMap: the bounds of a preferred duration, <<>> for a name it does not know
durationMap(name) ==
  CASE name = "short" -> <<1, 15>>
    [] name = "medium" -> <<16, 30>>
    [] name = "long" -> <<31, 100>>
    [] OTHER -> <<>>

\* the three filters of generateMockRecommendations
TopicFilter(preferences, rec) ==
  preferences.topics # <<>> =>
    \E n \in 1..Len(preferences.topics) :
      LET topic == toLowerCase(preferences.topics[n])
      IN  \/ includes(toLowerCase(rec.category), topic)
          \/ includes(toLowerCase(rec.title), topic)
          \/ includes(toLowerCase(rec.description), topic)

SkillFilter(preferences, rec) ==
  preferences.skill_level # "any" =>
    CASE preferences.skill_level = "Beginner" -> rec.level \in {"Beginner", "Intermediate"}
      [] preferences.skill_level = "Intermediate" -> rec.level \in {"Intermediate", "Advanced"}
      [] OTHER -> rec.level = "Advanced"

DurationFilter(preferences, rec) ==
  (preferences.preferred_duration # "any" /\ durationMap(preferences.preferred_duration) # <<>>) =>
    /\ rec.duration >= durationMap(preferences.preferred_duration)[1]
    /\ rec.duration <= durationMap(preferences.preferred_duration)[2]

\* the boost for a matching skill level, capped at 1.0 (the requests carry no
\* learning_goals, so the boost per goal adds nothing)
Boosted(preferences, rec) ==
  LET score == rec.relevance_score + (IF rec.level = preferences.skill_level THEN 10 ELSE 0)
  IN  [rec EXCEPT !.relevance_score = IF score < 100 THEN score ELSE 100]

RECURSIVE SortByRelevance(_)
\* Array.prototype.sort((a, b) => b.relevance_score - a.relevance_score): stable
SortByRelevance(recs) ==
  IF recs = <<>> THEN <<>>
  ELSE LET rest == SortByRelevance(Tail(recs))
           ahead == SelectSeq(rest, LAMBDA r : r.relevance_score > Head(recs).relevance_score)
           behind == SelectSeq(rest, LAMBDA r : r.relevance_score <= Head(recs).relevance_score)
       IN  ahead \o <<Head(recs)>> \o behind

\* Array.prototype.slice(0, n)
SliceTo(a, n) == SubSeq(a, 1, IF Len(a) < n THEN Len(a) ELSE n)

generateMockRecommendations(preferences) ==
  LET filtered == SelectSeq(baseRecommendations,
                            LAMBDA rec : /\ TopicFilter(preferences, rec)
                                         /\ SkillFilter(preferences, rec)
                                         /\ DurationFilter(preferences, rec))
      scored == [i \in 1..Len(filtered) |-> Boosted(preferences, filtered[i])]
  IN  SliceTo(SortByRelevance(scored), MaxRecommendations)

\* a position of a JavaScript array that was never assigned, and what JSON.stringify
\* writes for it
Empty == [empty |-> TRUE]
JSONNull == [null |-> TRUE]

\* a[index] = v on a JavaScript array (index from 0): an index beyond the end leaves
\* the positions in between empty
ArrayAssign(a, index, v) ==
  IF index < Len(a) THEN [a EXCEPT ![index + 1] = v]
  ELSE a \o [j \in 1..(index - Len(a)) |-> Empty] \o <<v>>

\* the Mongo query of enhanceRecommendationsWithRealData (the requests carry no
\* exclude_categories); new RegExp(topic, 'i') for a topic made of letters
RealMatch(preferences, doc) ==
  /\ doc.status = "published"
  /\ preferences.topics # <<>> =>
       \E n \in 1..Len(preferences.topics) :
         LET topic == toLowerCase(preferences.topics[n])
         IN  \/ includes(toLowerCase(doc.category), topic)
             \/ includes(toLowerCase(doc.title), topic)
             \/ includes(toLowerCase(doc.description), topic)
  /\ preferences.skill_level # "any" => doc.level = preferences.skill_level

\* the recommendation written for the real course at position index
RealRecommendation(course, index) ==
  [course_id |-> course.course_id, relevance_score |-> 85 - index * 5,
   is_real_course |-> TRUE] @@ course

RECURSIVE MergeReal(_, _, _, _)
\* realCourses.forEach((course, index) => ...) from position index on
MergeReal(enhanced, realCourses, index, aiLen) ==
  IF index >= Len(realCourses) THEN enhanced
  ELSE MergeReal(IF index < aiLen
                   THEN ArrayAssign(enhanced, index + RealOffset,
                                    RealRecommendation(realCourses[index + 1], index))
                   ELSE enhanced,
                 realCourses, index + 1, aiLen)

\* enhanceRecommendationsWithRealData on the collection st; ok = FALSE is a find that
\* throws, or a model that was never loaded: the recommendations come back untouched
enhanceRecommendationsWithRealData(aiRecommendations, preferences, st, ok) ==
  IF ~ok THEN aiRecommendations
  ELSE LET realCourses ==
             SliceTo(SelectSeq(st, LAMBDA d : RealMatch(preferences, d)), MaxRealCourses)
       IN  SliceTo(MergeReal(aiRecommendations, realCourses, 0, Len(aiRecommendations)),
                   MaxRecommendations)

\* JSON.stringify of the list, in res.json and in RedisClient.set: an empty position
\* is written as null
RecommendationsJSON(recs) ==
  [i \in 1..Len(recs) |-> IF recs[i] = Empty THEN JSONNull ELSE recs[i]]

\* the base64 of the JSON of the preferences: one string per combination of values
preferencesHash(preferences) ==
  Join(preferences.topics, ",") \o "/" \o preferences.skill_level
    \o "/" \o preferences.preferred_duration

\* the handler up to the cache lookup: 400 for an unknown skill level, the cached list
\* on a hit
RecommendGet(p, body, ok) ==
  LET preferences == Preferences(body)
      key == aiCacheKey("recommendations", <<preferencesHash(preferences)>>)
      got == RedisGet(cache, redisConnected, ok, key)
      r   == [op |-> "recommend", pc |-> "enhance", preferences |-> preferences, key |-> key]
  IN  /\ req[p] = Idle
      /\ req' = [req EXCEPT ![p] =
                   IF preferences.skill_level \notin validSkillLevels
                     THEN Respond(r, [status |-> 400])
                   ELSE IF got # <<>>
                     THEN Respond(r, [status |-> 200, recommendations |-> got[1].value,
                                      cached |-> TRUE])
                   ELSE r]
      /\ UNCHANGED <<store, esIndex, cache, redisConnected, redisEvent, esConnected, doneVer,
                     admins, localStorage, auth>>

\* callGeminiAPI and enhanceRecommendationsWithRealData: the mock list, then the real
\* courses found now merged into it
RecommendEnhance(p, ok) ==
  /\ req[p].op = "recommend"
  /\ req[p].pc = "enhance"
  /\ LET aiRecommendations == generateMockRecommendations(req[p].preferences)
     IN  req' = [req EXCEPT ![p] =
                   [@ EXCEPT !.pc = "set"] @@
                   [ai |-> Len(aiRecommendations),
                    result |-> enhanceRecommendationsWithRealData(
                                 aiRecommendations, req[p].preferences, store, ok)]]
  /\ UNCHANGED <<store, esIndex, cache, redisConnected, redisEvent, esConnected, doneVer,
                 admins, localStorage, auth>>

\* RedisClient.set(cacheKey, enhancedRecommendations, 3600), then the response
RecommendSet(p, ok) ==
  /\ req[p].op = "recommend"
  /\ req[p].pc = "set"
  /\ cache' = RedisSet(cache, redisConnected, ok, req[p].key,
                       RecommendationsJSON(req[p].result), RecommendationsTTL, Len(store))
  /\ req' = [req EXCEPT ![p] =
               Respond(@, [status |-> 200,
                           recommendations |-> RecommendationsJSON(req[p].result)])]
  /\ UNCHANGED <<store, esIndex, redisConnected, redisEvent, esConnected, doneVer, admins,
                 localStorage, auth>>

\* preferences that leave six, five, four, three, two, one and no mock recommendation
\* (the one naming a topic of the catalog leaves one), and one with a skill level the
\* service does not know
RecommendBodies ==
  { [skill_level |-> "any"], <<>>, [skill_level |-> "any", preferred_duration |-> "medium"],
    [preferred_duration |-> "medium"], [preferred_duration |-> "long"],
    [topics |-> <<"intro">>], [preferred_duration |-> "short"],
    [skill_level |-> "Expert"] }

\* the most courses in the catalog the service reads
MaxCatalog == 4

\* the service listening with Redis connected, on a catalog of up to four courses
InitRecommend ==
  /\ \E n \in 0..MaxCatalog : store = Catalog(n)
  /\ esIndex = {}
  /\ cache = <<>>
  /\ redisConnected = TRUE
  /\ redisEvent = "ready"
  /\ esConnected = FALSE
  /\ req = [p \in Procs |-> Idle]
  /\ doneVer = Len(store)
  /\ admins = NoAdmins
  /\ localStorage = NoStorage
  /\ auth = Unmounted

\* one client of the service at a time
NextRecommend ==
  \/ \E body \in RecommendBodies, ok \in BOOLEAN : RecommendGet(1, body, ok)
  \/ \E ok \in BOOLEAN : RecommendEnhance(1, ok)
  \/ \E ok \in BOOLEAN : RecommendSet(1, ok)
  \/ Return(1)

SpecRecommend == InitRecommend /\ [][NextRecommend]_vars

\* the collections the process may find at its first start
StartStores == {<<>>, Catalog(2)}

\* the index calls of a sync that may throw
SyncFailures == SUBSET {1, 2}

InitSweep ==
  /\ store \in StartStores
  /\ esIndex = {}
  /\ cache = <<>>
  /\ redisConnected = FALSE
  /\ redisEvent = "none"
  /\ esConnected = FALSE
  /\ req = [p \in Procs |-> IF p = 1 THEN Booting(<<>>) ELSE Idle]
  /\ doneVer = Len(store)
  /\ admins = NoAdmins
  /\ localStorage = NoStorage
  /\ auth = Unmounted

\* the process in slot 1, started and restarted, serving creates in slot 2 while up
NextSweep ==
  \/ \E redisOk, esOk \in BOOLEAN, failed \in SyncFailures :
       initializeServices(1, redisOk, esOk, failed)
  \/ Restart(1)
  \/ Up(1) /\ Creates(2, {GoodBody("cs1"), GoodBody("CS2") @@ [status |-> "draft"]},
                       {<<"Bearer", "issued">>})
  \/ Up(1) /\ Return(2)

SpecSweep == InitSweep /\ [][NextSweep]_vars

\* the running service left to itself: the process starts once and is never
\* restarted, slot 2 creates published courses; no step is postponed forever
NextLive ==
  \/ \E redisOk, esOk \in BOOLEAN, failed \in SyncFailures :
       initializeServices(1, redisOk, esOk, failed)
  \/ Up(1) /\ Creates(2, {GoodBody("cs1"), GoodBody("CS2"), GoodBody("cs3")},
                       {<<"Bearer", "issued">>})
  \/ Up(1) /\ Return(2)

SpecLive == InitSweep /\ [][NextLive]_vars /\ WF_vars(NextLive)

\* the process restarted with Elasticsearch reachable or not while slot 2 searches:
\* Redis keeps its entries across the restarts
NextOutage ==
  \/ \E redisOk, esOk \in BOOLEAN, failed \in SyncFailures :
       initializeServices(1, redisOk, esOk, failed)
  \/ Restart(1)
  \/ Up(1) /\ \E q \in SearchQueries, ok \in BOOLEAN : SearchGet(2, q, ok)
  \/ Up(1) /\ \E ok \in BOOLEAN : SearchQuery(2, ok)
  \/ Up(1) /\ \E ok \in BOOLEAN : SearchSet(2, ok)
  \/ Up(1) /\ Return(2)
  \/ \E key \in DOMAIN cache : Expire(key)

SpecOutage == InitSweep /\ [][NextOutage]_vars

\* the process started on a collection one course beyond the limit of the sync, then
\* serving reads of single courses in slot 2
InitSweepLarge ==
  /\ store = Catalog(SyncLimit + 1)
  /\ esIndex = {}
  /\ cache = <<>>
  /\ redisConnected = FALSE
  /\ redisEvent = "none"
  /\ esConnected = FALSE
  /\ req = [p \in Procs |-> IF p = 1 THEN Booting(<<>>) ELSE Idle]
  /\ doneVer = Len(store)
  /\ admins = NoAdmins
  /\ localStorage = NoStorage
  /\ auth = Unmounted

NextSweepLarge ==
  \/ \E redisOk, esOk \in BOOLEAN, failed \in SyncFailures :
       initializeServices(1, redisOk, esOk, failed)
  \/ Up(1) /\ \E id \in {"c1", "c1001", "c1002", "1"}, ok \in BOOLEAN : SingleGet(2, id, ok)
  \/ Up(1) /\ SingleQuery(2)
  \/ Up(1) /\ \E ok \in BOOLEAN : SingleSet(2, ok)
  \/ Up(1) /\ Return(2)
  \/ Up(1) /\ RedisReady
  \/ Up(1) /\ RedisError

SpecSweepLarge == InitSweepLarge /\ [][NextSweepLarge]_vars

-----------------------------------------------------------------------------
(* Vocabulary of the properties *)

Range(s) == {s[i] : i \in DOMAIN s}

Ascending(s) == \A i, j \in DOMAIN s : i < j => s[i] < s[j]

HasPrefix(s, pre) == Len(s) >= Len(pre) /\ SubSeq(s, 1, Len(pre)) = pre

ReadOps == {"list", "search", "single", "stats"}

MutatingOps == {"create", "upload"}

\* the key-prefix scopes a mutation must invalidate in bulk
BulkScope(key) ==
  \/ HasPrefix(key, "courses:list:")
  \/ HasPrefix(key, "courses:search:")
  \/ HasPrefix(key, "courses:stats:")

\* identifier id names the stored course
Names(id, course) == ToUpperCase(id) = course.course_id \/ id = ToString(course._id)

\* a committed course changes what read r has to return
Touches(course, r) ==
  CASE r.op = "single" -> Names(r.q.id, course)
    [] r.op = "list" -> ListMatch(r.q, course)
    [] OTHER -> TRUE

\* the courses a cached response lacks although the call that wrote them had completed
\* before the read began
MissedBy(r) == {i \in (r.resp.ver + 1)..r.startVer : Touches(store[i], r)}

\* slot p holds the report of an upload
Reported(p) == req[p].op = "upload" /\ Responded(p) /\ req[p].resp.status = 200

\* required-field validation as the specification words it
RowRejected(row) ==
  \E f \in {"title", "description", "category", "instructor", "duration"} :
    f \notin DOMAIN row \/ Trim(row[f]) = ""

RejectedNums(rows) == {n \in 1..Len(rows) : RowRejected(rows[n])}

AcceptedNums(rows) == (1..Len(rows)) \ RejectedNums(rows)

\* the entries of a report's errors written for a duplicate course_id
ConflictErrors(errors) == {i \in DOMAIN errors : HasPrefix(errors[i], "Course with ID ")}

\* the entries written for any other failure of the store insert
StoreErrors(errors) == {i \in DOMAIN errors : HasPrefix(errors[i], "Error saving course ")}

-----------------------------------------------------------------------------
(* Cache coherence and authorization *)

\* C1: once a mutation has committed and its call has completed, no later read is
\* answered from the cache with a payload computed before that mutation which the
\* mutation changes.
C1_NoStaleHit ==
  \A p \in Procs :
    (req[p].op \in ReadOps /\ Responded(p) /\ "cached" \in DOMAIN req[p].resp)
      => MissedBy(req[p]) = {}

\* C2: when an upload returns a report with at least one saved course, no list, search
\* or statistics cache entry that was present before the upload is still present.
C2_UploadInvalidates ==
  \A p \in Procs :
    (Reported(p) /\ req[p].resp.saved_courses >= 1)
      => \A k \in DOMAIN cache : BulkScope(k) => p \notin cache[k].seenBy

\* C3: after a successful create, every list, search and statistics entry that existed
\* before the call is gone, and so is the single-course entry of the created course.
C3_CreateInvalidates ==
  \A p \in Procs :
    (req[p].op = "create" /\ Responded(p) /\ req[p].resp.status = 201)
      => /\ \A k \in DOMAIN cache : BulkScope(k) => p \notin cache[k].seenBy
         /\ \A id \in SingleIds :
              Names(id, req[p].resp.course) => SingleKey(id) \notin DOMAIN cache

\* C4: whatever the cache held under the single-course key, a GET of the identifier
\* issued right after its successful create (the 201 not yet collected) returns the
\* created course.
C4_CreateThenGet ==
  \A w, p \in Procs :
    ( /\ req[w].op = "create" /\ Responded(w) /\ req[w].resp.status = 201
      /\ req[p].op = "single" /\ Responded(p)
      /\ req[p].startVer >= req[w].resp.course._id
      /\ Names(req[p].q.id, req[w].resp.course) )
      => /\ req[p].resp.status = 200
         /\ req[p].resp.data = req[w].resp.course

\* C5: an upload or a create without a valid token is rejected with 401 and never gets
\* to write (the reads take no token at all).
C5_Authorization ==
  \A p \in Procs :
    (req[p].op \in MutatingOps /\ TokenOf(req[p].header) \notin ValidTokens)
      => Responded(p) /\ req[p].resp.status = 401

-----------------------------------------------------------------------------
(* The ingestion report *)

\* C6 as stated: the report's saved_courses is N - k - (duplicate conflicts among the
\* valid rows), k the rows failing required-field validation, and errors has at least
\* k entries.
C6_SavedCountOriginal ==
  \A p \in Procs :
    Reported(p) =>
      LET rows == req[p].file.rows
          k    == Cardinality(RejectedNums(rows))
      IN  /\ req[p].resp.saved_courses
               = Len(rows) - k - Cardinality(ConflictErrors(req[p].resp.errors))
          /\ Len(req[p].resp.errors) >= k

\* C6 as amended: the rows taken off are the valid rows whose insert the store refused
\* for any reason, a duplicate course_id or a schema validation failure.  With k = N
\* the response is the 400 carrying the k errors, and nothing was handed to the store.
C6_SavedCount ==
  \A p \in Procs :
    (req[p].op = "upload" /\ Responded(p) /\ req[p].file.readable /\ req[p].file.rows # <<>>) =>
      LET rows == req[p].file.rows
          resp == req[p].resp
          k    == Cardinality(RejectedNums(rows))
      IN  /\ Len(resp.errors) >= k
          /\ IF resp.status = 200
               THEN /\ resp.total_rows = Len(rows)
                    /\ resp.saved_courses
                         = Len(rows) - k - Cardinality(ConflictErrors(resp.errors))
                                         - Cardinality(StoreErrors(resp.errors))
                    /\ Len(resp.courses) = resp.saved_courses
               ELSE /\ k = Len(rows)
                    /\ "savedFrom" \notin DOMAIN req[p]

\* a report with a rejected row, a row the schema refused and a saved row
C6_Witness ==
  \E p \in Procs :
    /\ Reported(p)
    /\ RejectedNums(req[p].file.rows) # {}
    /\ StoreErrors(req[p].resp.errors) # {}
    /\ req[p].resp.saved_courses >= 1

\* the text the specification gives for the error of rejected row n
ExpectedRowError(n, row) ==
  "Row " \o ToString(n) \o ": Missing required fields: "
    \o Join(SelectSeq(<<"title", "description", "category", "instructor", "duration">>,
                      LAMBDA f : f \notin DOMAIN row \/ Trim(row[f]) = ""), ", ")

\* the rows of upload p handed to the store so far
Submitted(p) == Range(req[p].savedFrom) \union Range(req[p].failedFrom)

\* C7: a row with a missing or blank required field is never submitted to the store,
\* gets the error 'Row n: Missing required fields: ...' under its 1-based number, and
\* does not keep later rows from being processed; valid_courses is total_rows minus
\* the number of such rows.
C7_RequiredFields ==
  \A p \in Procs :
    (req[p].op = "upload" /\ req[p].file.readable /\ req[p].file.rows # <<>>) =>
      LET rows == req[p].file.rows
      IN  /\ "savedFrom" \in DOMAIN req[p] => Submitted(p) \cap RejectedNums(rows) = {}
          /\ Responded(p) =>
               \A n \in RejectedNums(rows) :
                 ExpectedRowError(n, rows[n]) \in Range(req[p].resp.errors)
          /\ Reported(p) =>
               /\ Submitted(p) = AcceptedNums(rows)
               /\ req[p].resp.valid_courses
                    = req[p].resp.total_rows - Cardinality(RejectedNums(rows))

\* a report for an upload whose rejected row precedes a row that was saved
C7_Witness ==
  \E p \in Procs :
    /\ Reported(p)
    /\ \E n \in RejectedNums(req[p].file.rows), m \in Range(req[p].savedFrom) : n < m

\* the step is a refused insert of upload p's current row
InsertRefused(p) ==
  /\ req[p].op = "upload"
  /\ req[p].pc = "save"
  /\ req'[p].op = "upload"
  /\ Len(req'[p].failedFrom) > Len(req[p].failedFrom)

\* C8: a validated row whose insert fails adds exactly one entry to the errors and
\* leaves the store as it was, and every other validated row, before or after it, is
\* still handed to the store and inserted unless its own insert fails.
C8_RowIsolation ==
  /\ [][\A p \in Procs :
          InsertRefused(p) =>
            /\ store' = store
            /\ Len(req'[p].saveErrors) = Len(req[p].saveErrors) + 1
            /\ Len(req'[p].failedFrom) = Len(req[p].failedFrom) + 1]_vars
  /\ [](\A p \in Procs :
          Reported(p) =>
            /\ Submitted(p) = AcceptedNums(req[p].file.rows)
            /\ Range(req[p].savedFrom) \cap Range(req[p].failedFrom) = {}
            /\ Len(req[p].resp.errors)
                 = Cardinality(RejectedNums(req[p].file.rows)) + Len(req[p].failedFrom)
            /\ Len(req[p].resp.courses) = Len(req[p].savedFrom)
            /\ \A i \in DOMAIN req[p].resp.courses :
                 /\ req[p].resp.courses[i]._id \in DOMAIN store
                 /\ store[req[p].resp.courses[i]._id] = req[p].resp.courses[i])

\* a report in which a refused row lies between two saved rows
C8_Witness ==
  \E p \in Procs :
    /\ Reported(p)
    /\ \E a, c \in Range(req[p].savedFrom), b \in Range(req[p].failedFrom) : a < b /\ b < c

\* C9: the errors of a report are in row order: when rows i < j of the upload are both
\* rejected, at validation or at the store, the error for row i comes before the
\* error for row j.
C9_RowOrder ==
  \A p \in Procs : Reported(p) => Ascending(req[p].resp.errorsFrom)

\* C10: an upload that parses to at least one row, all of them failing validation,
\* gets a report with saved_courses = 0 and errors, not an error response.
C10_AllRowsInvalid ==
  \A p \in Procs :
    ( /\ req[p].op = "upload" /\ Responded(p)
      /\ req[p].file.readable /\ req[p].file.rows # <<>>
      /\ AcceptedNums(req[p].file.rows) = {} )
      => /\ req[p].resp.status = 200
         /\ req[p].resp.saved_courses = 0
         /\ req[p].resp.errors # <<>>

\* the response of slot p is a hard error: a failure status and no report
HardError(p) ==
  /\ Responded(p)
  /\ req[p].resp.status # 200
  /\ "saved_courses" \notin DOMAIN req[p].resp

\* C11: an upload whose stream cannot be parsed, or that parses to zero rows, ends in
\* a hard error with no report, and that call leaves the store, the index and the
\* cache as they were.
C11_ParseFailure ==
  /\ [][\A p \in Procs :
          ( /\ req[p] = Idle /\ req'[p].op = "upload" /\ req'[p].file.present
            /\ (~req'[p].file.readable \/ req'[p].file.rows = <<>>) )
            => /\ req'[p].pc = "done"
               /\ req'[p].resp.status \in {400, 500}
               /\ "saved_courses" \notin DOMAIN req'[p].resp
               /\ store' = store /\ esIndex' = esIndex /\ cache' = cache]_vars
  /\ [](\A p \in Procs :
          ( /\ req[p].op = "upload" /\ req[p].file.present
            /\ (~req[p].file.readable \/ req[p].file.rows = <<>>) )
            => HardError(p) /\ "savedFrom" \notin DOMAIN req[p])

\* an unparsable or empty upload answered while the store holds a course
C11_Witness ==
  \E p \in Procs :
    /\ req[p].op = "upload" /\ req[p].file.present
    /\ (~req[p].file.readable \/ req[p].file.rows = <<>>)
    /\ HardError(p)
    /\ store # <<>>

\* the upload of slot p failed structurally or lacks a valid token
StructuralOrAuthFailure(p) ==
  \/ ~req[p].file.present
  \/ ~req[p].file.readable
  \/ req[p].file.rows = <<>>
  \/ TokenOf(req[p].header) \notin ValidTokens

\* C12: an upload ends in a hard error only for a structural or authorization
\* failure; a call that inserted a row ends with a report, and a call that ended in a
\* hard error has no row in the store.
C12_HardErrorOnlyStructural ==
  \A p \in Procs :
    (req[p].op = "upload" /\ Responded(p)) =>
      /\ HardError(p) => StructuralOrAuthFailure(p)
      /\ HardError(p) => "savedFrom" \notin DOMAIN req[p]
      /\ ("savedFrom" \in DOMAIN req[p] /\ req[p].savedFrom # <<>>) => Reported(p)

-----------------------------------------------------------------------------
(* Uniqueness of course_id *)

\* slot p holds a create that passed authenticateToken and the schema validators
ValidCreate(p) ==
  /\ req[p].op = "create"
  /\ authenticateToken(req[p].header)
  /\ ValidationErrors(CastCourse(req[p].body)) = {}

\* the stored courses that carry the identifier id
StoredUnder(id) == {i \in DOMAIN store : ToUpperCase(store[i].course_id) = ToUpperCase(Trim(id))}

\* C13: of two creates with the same course_id in flight at once exactly one succeeds
\* and stores its course; the other is answered 409 and stores nothing.
C13_ConcurrentCreate ==
  /\ [][\A p \in Procs :
          ( /\ req[p] = Idle /\ req'[p].op = "create"
            /\ authenticateToken(req'[p].header)
            /\ ValidationErrors(CastCourse(req'[p].body)) = {}
            /\ StoredUnder(req'[p].body.course_id) = {} )
            => /\ "savedCourse" \in DOMAIN req'[p]
               /\ store' = Append(store, req'[p].savedCourse)]_vars
  /\ [](\A w, p \in Procs :
          ( /\ w # p /\ ValidCreate(w) /\ ValidCreate(p)
            /\ ToUpperCase(Trim(req[w].body.course_id)) = ToUpperCase(Trim(req[p].body.course_id)) )
            => LET winners == {x \in {w, p} : "savedCourse" \in DOMAIN req[x]}
               IN  /\ Cardinality(winners) <= 1
                   /\ \A x \in {w, p} \ winners : Responded(x) /\ req[x].resp.status = 409
                   /\ \A x \in winners : /\ req[x].savedCourse._id \in DOMAIN store
                                          /\ store[req[x].savedCourse._id] = req[x].savedCourse
                   /\ Cardinality(StoredUnder(req[p].body.course_id)) = 1)

\* a create still in flight after its save while the create of the same id, spelled
\* otherwise, has its 409
C13_Witness ==
  \E w, p \in Procs :
    /\ ValidCreate(w) /\ ValidCreate(p)
    /\ req[w].body.course_id # req[p].body.course_id
    /\ ToUpperCase(Trim(req[w].body.course_id)) = ToUpperCase(Trim(req[p].body.course_id))
    /\ req[w].pc \in {"index", "del"}
    /\ Responded(p) /\ req[p].resp.status = 409

\* C14: no two stored courses have the same case-normalized course_id, and no step,
\* a refused duplicate insert included, changes a course already stored.
C14_UniqueId ==
  /\ [][\A i \in DOMAIN store : i \in DOMAIN store' /\ store'[i] = store[i]]_vars
  /\ [](\A i, j \in DOMAIN store :
          i # j => ToUpperCase(store[i].course_id) # ToUpperCase(store[j].course_id))

\* an upload row and a create both refused as duplicates of stored courses
C14_Witness ==
  /\ \E p \in Procs : /\ req[p].op = "upload" /\ "saveErrors" \in DOMAIN req[p]
                       /\ ConflictErrors(req[p].saveErrors) # {}
  /\ \E p \in Procs : req[p].op = "create" /\ Responded(p) /\ req[p].resp.status = 409
  /\ Len(store) >= 2

-----------------------------------------------------------------------------
(* The search index against the store *)

\* the course the mutating call of slot p saved last
LastSaved(p) ==
  IF req[p].op = "create" THEN req[p].savedCourse
  ELSE req[p].savedCourses[Len(req[p].savedCourses)]

\* document d of the index is the indexed form of a stored course
Committed(d) == d._id \in DOMAIN store /\ IndexBody(store[d._id]) = d

\* C15: within a mutating call the store write of a course precedes its index write,
\* and the index write precedes the cache invalidation; every document in the index
\* is that of a course already in the store.
C15_WriteOrder ==
  /\ [][\A p \in Procs :
          (req'[p] # req[p] /\ esIndex' # esIndex) =>
            /\ req[p].op \in MutatingOps
            /\ req[p].pc = "index"
            /\ LastSaved(p)._id \in DOMAIN store
            /\ store[LastSaved(p)._id] = LastSaved(p)
            /\ esIndex' = IndexDoc(esIndex, LastSaved(p))]_vars
  /\ [][\A p \in Procs :
          (req[p].op = "create" /\ req[p].pc = "del" /\ req'[p] # req[p]) =>
            /\ store' = store
            /\ esIndex' = esIndex
            /\ store[req[p].savedCourse._id] = req[p].savedCourse]_vars
  /\ [](\A d \in esIndex : Committed(d))

\* a create about to invalidate the cache with its course in the store and the index,
\* next to a course of an upload
C15_Witness ==
  \E p \in Procs :
    /\ req[p].op = "create" /\ req[p].pc = "del"
    /\ IndexBody(req[p].savedCourse) \in esIndex
    /\ Cardinality(esIndex) >= 2

\* the courses a cached value contains: the page of a list or search result, or the
\* course of a single-course entry
CachedCourses(value) ==
  IF "courses" \in DOMAIN value THEN Range(value.courses)
  ELSE IF "course_id" \in DOMAIN value THEN {value}
  ELSE {}

\* the status of a course as the store has it (index documents carry no status)
StatusOf(c) == IF "status" \in DOMAIN c THEN c.status ELSE store[c._id].status

\* C16: every course in the search index and every course contained in a cache entry
\* has status published; a draft or archived course is never indexed and never cached.
C16_PublishedOnly ==
  /\ \A d \in esIndex : Committed(d) => StatusOf(d) = "published"
  /\ \A k \in DOMAIN cache :
       \A c \in CachedCourses(cache[k].value) : StatusOf(c) = "published"

\* the step is the index call of upload p's current row and leaves the index as it
\* was: the call failed or Elasticsearch is not connected
IndexSkipped(p) ==
  /\ req[p].op = "upload"
  /\ req[p].pc = "index"
  /\ req'[p] # req[p]
  /\ esIndex' = esIndex

\* C17: when indexing a saved course fails or the index is unavailable, the course
\* stays in the store and in the report's count and courses, no error is added for
\* it, and the remaining rows are still processed.
C17_IndexFailure ==
  /\ [][\A p \in Procs :
          IndexSkipped(p) =>
            /\ store' = store
            /\ req'[p].savedCourses = req[p].savedCourses
            /\ req'[p].saveErrors = req[p].saveErrors
            /\ IF req[p].i < Len(req[p].toSave)
                 THEN req'[p].pc = "save" /\ req'[p].i = req[p].i + 1
                 ELSE req'[p].pc = "done" /\ req'[p].resp.status = 200]_vars
  /\ [](\A p \in Procs :
          Reported(p) =>
            /\ Submitted(p) = AcceptedNums(req[p].file.rows)
            /\ req[p].resp.saved_courses = Len(req[p].savedFrom)
            /\ req[p].resp.courses = req[p].savedCourses
            /\ \A c \in Range(req[p].resp.courses) : store[c._id] = c
            /\ Len(req[p].resp.errors)
                 = Cardinality(RejectedNums(req[p].file.rows)) + Len(req[p].failedFrom))

\* a report of two saved courses and no error, the first course missing from a
\* connected index, the second one indexed
C17_Witness ==
  \E p \in Procs :
    /\ Reported(p)
    /\ esConnected
    /\ Len(req[p].resp.courses) >= 2
    /\ req[p].resp.errors = <<>>
    /\ IndexBody(req[p].resp.courses[1]) \notin esIndex
    /\ IndexBody(req[p].resp.courses[2]) \in esIndex

\* C18: once a sync has run against an available index with every index call
\* succeeding, and before anything else touches the store or the index, every
\* published course of the store has a document in the index, however many there are
SweptClean(p) ==
  /\ Up(p)
  /\ req[p].swept
  /\ req[p].failed = {}
  /\ Len(store) = req[p].ver
  /\ esIndex = req[p].ix

C18_SweepCoversAll ==
  \A p \in Procs :
    SweptClean(p) =>
      \A i \in DOMAIN store :
        store[i].status = "published" => \E d \in esIndex : d._id = store[i]._id

\* the course stored under _id i is published
Published(i) == i \in DOMAIN store /\ store[i].status = "published"

\* the index holds a document of the course stored under _id i
Indexed(i) == \E d \in esIndex : d._id = i

\* the index took a document of a course committed after course i: it has been
\* available since course i was committed
AvailableSince(i) == \E d \in esIndex : d._id > i

\* C19: a published course missing from the index is eventually in the index once
\* the index has been available again, with no restart of the service
C19_EventuallyIndexed ==
  \A i \in 1..4 : (Published(i) /\ ~Indexed(i) /\ AvailableSince(i)) ~> Indexed(i)

\* the sync of slot p ran twice in a row on the same store: the run before the
\* restart and the run after it found the store at the same size, and the store
\* only ever grows
SweptTwice(p) ==
  /\ Up(p)
  /\ req[p].swept
  /\ req[p].prev # <<>>
  /\ req[p].prev[1].swept
  /\ req[p].prev[1].ver = req[p].ver

\* the second sync left the index and the answer to every search as the first left them
SameIndex(p) ==
  /\ req[p].ix = req[p].prev[1].ix
  /\ \A q \in SearchQueries \ {q \in SearchQueries : BlankQuery(q)} :
       SearchResult(req[p].ix, TRUE, TRUE, q) = SearchResult(req[p].prev[1].ix, TRUE, TRUE, q)

DirectQuery(r) ==
  CASE r.op = "list" -> {ListResult(store, r.q)}
    [] r.op = "single" -> Range(FindOne(store, r.q.id))
    [] r.op = "stats" -> {StatsResult(store)}
    [] r.op = "search" -> {SearchResult(esIndex, esConnected, ok, r.q) : ok \in BOOLEAN}

\* C21: while Redis is not connected a read computes what a direct query of its source
\* of truth answers (a 404 when that finds no course), and completes with status 200,
\* that payload and cached = false
C21_Degradation ==
  [][\A p \in Procs :
       (req[p].op \in ReadOps /\ ~redisConnected /\ req'[p] # req[p]) =>
         /\ req[p].pc = "query" =>
              IF req'[p].pc = "done"
                THEN req'[p].resp.status = 404 /\ DirectQuery(req[p]) = {}
                ELSE req'[p].result \in DirectQuery(req[p])
         /\ req[p].pc = "set" =>
              /\ req'[p].resp.status = 200
              /\ req'[p].resp.data = req[p].result
              /\ "cached" \in DOMAIN req'[p].resp
              /\ req'[p].resp.cached = FALSE]_vars

\* the response in slot p was computed from the source of truth
ComputedFresh(p) == "result" \in DOMAIN req[p]

\* C22: every 200 response of a read carries a cached boolean, true when the payload
\* came from a cache hit and false when it was computed from the source of truth
C22_CachedFlag ==
  \A p \in Procs :
    (Responded(p) /\ req[p].op \in ReadOps /\ req[p].resp.status = 200) =>
      /\ "cached" \in DOMAIN req[p].resp
      /\ req[p].resp.cached \in BOOLEAN
      /\ req[p].resp.cached = ~ComputedFresh(p)

\* the cache key of read r
OwnKey(r) ==
  CASE r.op = "list" -> ListKey(r.q)
    [] r.op = "search" -> SearchKey(r.q)
    [] r.op = "single" -> SingleKey(r.q.id)
    [] r.op = "stats" -> StatsKey

\* the expiry of each read, in seconds: 5, 2, 10 and 15 minutes
OwnTTL(op) ==
  CASE op = "list" -> 5 * 60
    [] op = "search" -> 2 * 60
    [] op = "single" -> 10 * 60
    [] op = "stats" -> 15 * 60

\* cache c with value stored under key for expiry seconds by an available Redis
Filled(c, key, value, expiry, ver) == RedisSet(c, TRUE, TRUE, key, value, expiry, ver)

\* C23: the last step of a read that missed either leaves the cache alone (Redis not
\* available) or stores exactly the payload it returns under the key of the request
\* with the expiry of its operation, an entry an available Redis gives back under that
\* key; and a read that finds an entry under its key answers with the value of that
\* entry, tagged cached
C23_FillAndRepeat ==
  [][\A p \in Procs :
       /\ (req[p].op \in ReadOps /\ req[p].pc = "set" /\ req'[p].pc = "done") =>
            LET key    == OwnKey(req[p])
                filled == Filled(cache, key, req'[p].resp.data, OwnTTL(req[p].op), req[p].ver)
            IN  /\ req'[p].resp.status = 200
                /\ cache' \in {cache, filled}
                /\ ~redisConnected => cache' = cache
                /\ RedisGet(filled, TRUE, TRUE, key) # <<>>
                /\ RedisGet(filled, TRUE, TRUE, key)[1].value = req'[p].resp.data
                /\ RedisGet(filled, TRUE, TRUE, key)[1].ttl = OwnTTL(req[p].op)
       /\ (req[p] = Idle /\ req'[p].op \in ReadOps /\ req'[p].pc = "done"
             /\ req'[p].resp.status = 200) =>
            /\ redisConnected
            /\ OwnKey(req'[p]) \in DOMAIN cache
            /\ req'[p].resp.data = cache[OwnKey(req'[p])].value
            /\ req'[p].resp.cached = TRUE
       /\ (req[p] = Idle /\ req'[p].op \in ReadOps /\ req'[p].pc = "query") =>
            req'[p].key = OwnKey(req'[p])]_vars

\* a search answered from the entry an earlier search stored for two minutes
C23_Witness ==
  \E p \in Procs :
    /\ Responded(p)
    /\ req[p].op = "search"
    /\ req[p].resp.status = 200
    /\ ~ComputedFresh(p)
    /\ req[p].key \in DOMAIN cache
    /\ cache[req[p].key].ttl = 2 * 60
    /\ cache[req[p].key].value = req[p].resp.data
    /\ req[p].resp.data.courses # <<>>

\* q is missing, empty or made of blanks only
Blank(q) == "q" \notin DOMAIN q \/ \A i \in 1..Len(q.q) : SubSeq(q.q, i, i) = " "

\* C24: a search whose query string is empty or blank is answered 400 in its first
\* step, with no cache key looked up, the cache and the index as they were, and the
\* handler over: no index query and no cache write follow
C24_BlankSearchRejected ==
  [][\A p \in Procs :
       (req[p] = Idle /\ req'[p].op = "search" /\ Blank(req'[p].q)) =>
         /\ req'[p].pc = "done"
         /\ req'[p].resp.status = 400
         /\ DOMAIN req'[p] \cap {"key", "result"} = {}
         /\ cache' = cache
         /\ esIndex' = esIndex]_vars

\* a blank search answered 400 while a cache entry for another search exists
C24_Witness ==
  \E p \in Procs :
    /\ Responded(p)
    /\ req[p].op = "search"
    /\ Blank(req[p].q)
    /\ req[p].resp.status = 400
    /\ \E k \in DOMAIN cache : HasPrefix(k, "courses:search:")

\* a payload of zero records and zero total items
NoResults(data) == data.courses = <<>> /\ data.pagination.total_items = 0

\* C25 as stated: while Elasticsearch is not connected every search with a non-blank
\* query is answered 200 with zero records and zero total items
C25_EmptyWhenDownOriginal ==
  \A p \in Procs :
    (Responded(p) /\ req[p].op = "search" /\ ~Blank(req[p].q) /\ ~esConnected) =>
      req[p].resp.status = 200 /\ NoResults(req[p].resp.data)

\* C25: a search with a non-blank query that misses the cache never ends in an error;
\* its query step computes zero records and zero total items when Elasticsearch is
\* not connected, and either that or the answer of the index when it is connected
\* (the query may fail); the response is 200 with what the query step computed
C25_EmptyWhenDown ==
  [][\A p \in Procs :
       (req[p].op = "search" /\ req'[p] # req[p] /\ req'[p] # Idle) =>
         /\ req[p].pc = "query" =>
              /\ req'[p].pc = "set"
              /\ ~esConnected => NoResults(req'[p].result)
              /\ \/ NoResults(req'[p].result)
                 \/ req'[p].result = SearchResult(esIndex, TRUE, TRUE, req[p].q)
         /\ req[p].pc = "set" =>
              /\ req'[p].pc = "done"
              /\ req'[p].resp.status = 200
              /\ req'[p].resp.data = req[p].result]_vars

\* a search computed while Elasticsearch is not connected and the index holds a
\* matching document: 200 with zero records
C25_Witness ==
  \E p \in Procs :
    /\ Responded(p)
    /\ req[p].op = "search"
    /\ ComputedFresh(p)
    /\ ~esConnected
    /\ \E d \in esIndex : Score(d, Trim(req[p].q.q)) > 0
    /\ req[p].resp.status = 200
    /\ NoResults(req[p].resp.data)

\* the course ids the schema may derive from a title: up to four initials and a stamp
\* of four digits
DerivedIds(title) ==
  LET initials == TitleAbbr(Trim(title), 1)
      Digits   == {"0", "1", "9"}
  IN  {SubSeq(initials, 1, IF Len(initials) < 4 THEN Len(initials) ELSE 4) \o a \o b \o c \o d :
         a, b, c, d \in Digits}

\* data carries no course_id
NoRecordId(data) == "course_id" \notin DOMAIN data \/ Trim(data.course_id) = ""

\* C26: a create without course_id whose other fields are valid is answered 201 with a
\* course_id derived from the title and the clock, and an upload row without course_id
\* that has its required fields is saved, not reported
C26_DerivedId ==
  \A p \in Procs :
    /\ (Responded(p) /\ req[p].op = "create" /\ NoRecordId(req[p].body)
          /\ authenticateToken(req[p].header)
          /\ ValidationErrors(CastCourse(req[p].body)) \subseteq {"course_id"}) =>
         /\ req[p].resp.status = 201
         /\ req[p].resp.course.course_id \in DerivedIds(req[p].body.title)
    /\ Reported(p) =>
         \A n \in DOMAIN req[p].file.rows :
           (NoRecordId(req[p].file.rows[n]) /\ ~RowRejected(req[p].file.rows[n])) =>
             /\ n \notin Range(req[p].resp.errorsFrom)
             /\ n \in Range(req[p].savedFrom)

\* the category and the level a row is to be stored with
CoercedCategory(row) ==
  IF Trim(row.category) \in validCategories THEN Trim(row.category) ELSE "Other"

CoercedLevel(row) ==
  IF "level" \in DOMAIN row /\ Trim(row.level) \in validLevels THEN Trim(row.level)
  ELSE "Beginner"

\* a reason other than its category or level for which the store refuses the row: a
\* field the schema rejects, or its course_id taken
RefusedOtherwise(row) ==
  \/ ValidationErrors(CastCourse(CourseData(row))) \ {"category", "level"} # {}
  \/ \E i \in DOMAIN store : store[i].course_id = Trim(ToUpperCase(row.course_id))

\* C27: in the report of an upload, a row with all required fields is never reported
\* as missing fields; when saved it is stored with its category, or Other when that is
\* not a category of the schema, and with its level, or Beginner; when not saved, the
\* store refused it for a reason other than category and level
C27_EnumCoercion ==
  \A p \in Procs :
    Reported(p) =>
      \A n \in DOMAIN req[p].file.rows :
        LET row == req[p].file.rows[n]
        IN  ~RowRejected(row) =>
              /\ n \in Range(req[p].savedFrom) \union Range(req[p].failedFrom)
              /\ \A k \in DOMAIN req[p].savedFrom :
                   req[p].savedFrom[k] = n =>
                     /\ req[p].resp.courses[k].category = CoercedCategory(row)
                     /\ req[p].resp.courses[k].level = CoercedLevel(row)
                     /\ store[req[p].resp.courses[k]._id] = req[p].resp.courses[k]
              /\ n \in Range(req[p].failedFrom) => RefusedOtherwise(row)

\* a report without errors of two saved rows: one of category Cooking stored as Other,
\* one of level Expert stored as Beginner
C27_Witness ==
  \E p \in Procs :
    /\ Reported(p)
    /\ req[p].resp.errors = <<>>
    /\ Len(req[p].file.rows) = 2
    /\ req[p].file.rows[1].category = "Cooking"
    /\ req[p].resp.courses[1].category = "Other"
    /\ "level" \in DOMAIN req[p].file.rows[2]
    /\ req[p].file.rows[2].level = "Expert"
    /\ req[p].resp.courses[2].level = "Beginner"

\* C28: a service started while Redis is unreachable and Elasticsearch is reachable
\* is connected to Elasticsearch and has run the sync of the store into the index
C28_StartWithoutRedis ==
  \A p \in Procs :
    (Up(p) /\ ~req[p].redisUp /\ req[p].esUp) => esConnected /\ req[p].swept

\* the number a page or size parameter of the requests above stands for, with the
\* default of the handler when the parameter is not sent
Asked(q, f, default) ==
  IF f \notin DOMAIN q THEN default
  ELSE CASE q[f] = "1" -> 1 [] q[f] = "2" -> 2 [] q[f] = "3" -> 3

\* C29: in every 200 response of the list and of the search for page >= 1 of size >= 1,
\* with T the total items reported (for the list, the published courses the store held):
\* total pages is the least number of pages of that size holding T items, has_next is
\* page < total pages, has_prev is page > 1, and at most size records are returned
C29_Pagination ==
  \A p \in Procs :
    (Responded(p) /\ req[p].op \in {"list", "search"} /\ req[p].resp.status = 200) =>
      LET pg   == req[p].resp.data.pagination
          page == Asked(req[p].q, "page", 1)
          size == Asked(req[p].q, IF req[p].op = "list" THEN "limit" ELSE "size", 10)
          T    == pg.total_items
      IN  (page >= 1 /\ size >= 1) =>
            /\ pg.current_page = page
            /\ pg.items_per_page = size
            /\ req[p].op = "list" =>
                 T = Cardinality({i \in 1..req[p].resp.ver : store[i].status = "published"})
            /\ pg.total_pages >= 0
            /\ pg.total_pages * size >= T
            /\ pg.total_pages > 0 => (pg.total_pages - 1) * size < T
            /\ pg.has_next = (page < pg.total_pages)
            /\ pg.has_prev = (page > 1)
            /\ Len(req[p].resp.data.courses) <= size

\* the second page of size one of a list of three courses: three pages, one record,
\* a page before and a page after
C29_Witness ==
  \E p \in Procs :
    /\ Responded(p)
    /\ req[p].op = "list"
    /\ req[p].resp.status = 200
    /\ req[p].q = [page |-> "2", limit |-> "1"]
    /\ req[p].resp.data.pagination.total_items = 3
    /\ req[p].resp.data.pagination.total_pages = 3
    /\ req[p].resp.data.pagination.has_next
    /\ req[p].resp.data.pagination.has_prev
    /\ Len(req[p].resp.data.courses) = 1

\* the login in record r names a registered account and sends both fields
KnownLogin(r) ==
  r.op = "login" /\ r.body.email \in DOMAIN admins /\ r.body.password # ""

\* the step of slot p starts a login that finds its account locked: it ends at once
\* with 423, no password compared and the account untouched
RejectsLocked(p) ==
  (req[p] = Idle /\ KnownLogin(req'[p]) /\ admins[req'[p].body.email].locked) =>
    /\ req'[p].pc = "done"
    /\ req'[p].resp.status = 423
    /\ "isPasswordValid" \notin DOMAIN req'[p]
    /\ admins' = admins

\* a login goes on to the password only for an unlocked active account, and the
\* comparison changes nothing
ChecksPassword(p) ==
  /\ (req[p] = Idle /\ KnownLogin(req'[p])) =>
       /\ req'[p].pc # "done" =>
            ~admins[req'[p].body.email].locked /\ admins[req'[p].body.email].isActive
       /\ req'[p].pc = "done" => "token" \notin DOMAIN req'[p].resp
  /\ (req[p].op = "login" /\ req[p].pc = "compare" /\ req'[p] # req[p]) =>
       req'[p] = Idle \/ (req'[p].pc = "update" /\ admins' = admins)

\* the last step of a login: a wrong password adds one to the stored count of failed
\* attempts and is answered without a token, the right password sets the count to
\* zero and is answered with a token
CountsOrIssues(p) ==
  (req[p].op = "login" /\ req[p].pc = "update" /\ req'[p] # req[p]) =>
    LET email == req[p].body.email
    IN  /\ req'[p].pc = "done"
        /\ \A other \in DOMAIN admins \ {email} : admins'[other] = admins[other]
        /\ IF req[p].body.password = admins[email].password
             THEN /\ admins'[email].loginAttempts = 0
                  /\ req'[p].resp.status = 200
                  /\ "token" \in DOMAIN req'[p].resp
                  /\ req'[p].resp.token \in ValidTokens
             ELSE /\ admins'[email].loginAttempts = admins[email].loginAttempts + 1
                  /\ req'[p].resp.status = 401
                  /\ "token" \notin DOMAIN req'[p].resp

-----------------------------------------------------------------------------
(* Registration *)

\* the signup in record r passed the handler's own checks on the body
ValidSignup(r) ==
  /\ r.op = "signup"
  /\ r.body.username # "" /\ r.body.email # ""
  /\ Len(r.body.password) >= PasswordMinLen

\* C31: two signups that repeat an email or a username, whatever their interleaving,
\* end with one admin created (201) and the other refused with the conflict response
\* (409), never with an internal error
C31_ConcurrentSignup ==
  \A p, q \in Procs :
    (/\ p # q
     /\ Responded(p) /\ Responded(q)
     /\ ValidSignup(req[p]) /\ ValidSignup(req[q])
     /\ (req[p].body.email = req[q].body.email \/ req[p].body.username = req[q].body.username))
    => /\ {req[p].resp.status, req[q].resp.status} \subseteq {201, 409}
       /\ ~(req[p].resp.status = 201 /\ req[q].resp.status = 201)

-----------------------------------------------------------------------------
(* The frontend session *)

\* the stored session is the one in memory: the token of the state under admin_token
\* and its admin under admin_data
StoredSession(a) ==
  /\ getItem(localStorage, "admin_token") = a.token
  /\ getItem(localStorage, "admin_data") = JSONStringify(a.admin)

\* C32: however the start-up verification interleaves with login, signup and logout,
\* isAuthenticated holds only while the admin_token of that admin is stored, and after
\* a logout with no later successful login or signup the user is not authenticated
C32_StateAgreesWithStorage ==
  /\ isAuthenticated(auth) => StoredSession(auth)
  /\ auth.loggedOut => ~isAuthenticated(auth)

-----------------------------------------------------------------------------
(* Cache keys *)

\* a filter as the handler uses it: <<>> when it is left out or empty (no filter),
\* <<value>> when it is given
Given(q, f) == IF Absent(q, f) \/ q[f] = "" THEN <<>> ELSE <<q[f]>>

\* the normalized parameters of a list request
ListParams(q) ==
  << ParseInt(QueryParam(q, "page", "1")), ParseInt(QueryParam(q, "limit", "10")),
     Given(q, "category"), Given(q, "instructor"), Given(q, "level"),
     QueryParam(q, "status", "published"), QueryParam(q, "sort", "created_at"),
     QueryParam(q, "order", "desc"), Given(q, "search") >>

\* the normalized parameters of a search request
SearchParams(q) ==
  << q.q, Given(q, "category"), Given(q, "instructor"),
     ParseInt(QueryParam(q, "page", "1")), ParseInt(QueryParam(q, "size", "10")) >>

\* the normalized parameters of the read in record r
ParamsOf(r) == IF r.op = "list" THEN ListParams(r.q) ELSE SearchParams(r.q)

\* record r is a list or a search that has built its cache key
Keyed(r) == r.op \in {"list", "search"} /\ "key" \in DOMAIN r

\* C33: two list requests, or two search requests, with different normalized
\* parameters never use the same cache key, and a request answered from the cache
\* gets the payload of its own parameters
C33_KeyInjective ==
  /\ \A p, q \in Procs :
       (Keyed(req[p]) /\ Keyed(req[q]) /\ req[p].op = req[q].op
          /\ ParamsOf(req[p]) # ParamsOf(req[q]))
       => req[p].key # req[q].key
  /\ \A p \in Procs :
       (Keyed(req[p]) /\ Responded(p) /\ "cached" \in DOMAIN req[p].resp) =>
         req[p].resp.data = IF req[p].op = "list" THEN ListResult(store, req[p].q)
                            ELSE SearchResult(esIndex, TRUE, TRUE, req[p].q)

\* records r1 and r2 are the same request after normalization: two single reads whose
\* identifiers differ at most in letter case, or two searches whose queries differ at
\* most in surrounding blanks
SameNormalized(r1, r2) ==
  \/ /\ r1.op = "single" /\ r2.op = "single"
     /\ ToUpperCase(r1.q.id) = ToUpperCase(r2.q.id)
  \/ /\ r1.op = "search" /\ r2.op = "search"
     /\ "key" \in DOMAIN r1 /\ "key" \in DOMAIN r2
     /\ Trim(r1.q.q) = Trim(r2.q.q)
     /\ [r1.q EXCEPT !.q = ""] = [r2.q EXCEPT !.q = ""]

\* what the source of truth answered to the read in record r, without the echo of the
\* query string
Resolved(r) ==
  IF r.op = "search" THEN [courses |-> r.result.courses, pagination |-> r.result.pagination]
  ELSE r.result

\* both reads resolve to the same result of the source of truth
SameResult(r1, r2) ==
  ("result" \in DOMAIN r1 /\ "result" \in DOMAIN r2) => Resolved(r1) = Resolved(r2)

\* C34: two requests that are equal after normalization resolve to the same result
\* of the source of truth and use the same cache key
C34_NormalizedKey ==
  \A p, q \in Procs :
    SameNormalized(req[p], req[q]) =>
      SameResult(req[p], req[q]) /\ req[p].key = req[q].key

-----------------------------------------------------------------------------
(* Failures of the search adapter *)

\* what the index returns for the search in record r
IndexAnswer(r) == SearchResult(esIndex, TRUE, TRUE, r.q)

\* C35: every search payload served from the cache is a result the index returned for
\* that query, never the empty result the adapter substitutes when it fails
C35_NoCachedFailure ==
  \A p \in Procs :
    (req[p].op = "search" /\ Responded(p) /\ "cached" \in DOMAIN req[p].resp) =>
      req[p].resp.data = IndexAnswer(req[p])

-----------------------------------------------------------------------------
(* Accounting of the rows of an upload *)

\* how often row number n occurs in the sequence nums
Occurrences(nums, n) == Cardinality({i \in DOMAIN nums : nums[i] = n})

\* C36: in every report each parsed row is accounted for exactly once, as a saved
\* course or as one entry of errors, so saved_courses + errors.length = total_rows,
\* and valid_courses = total_rows - the rows rejected at validation
C36_RowsAccounted ==
  \A p \in Procs :
    Reported(p) =>
      LET rows == req[p].file.rows
          resp == req[p].resp
      IN  /\ resp.total_rows = Len(rows)
          /\ Len(resp.courses) = resp.saved_courses
          /\ Len(req[p].savedFrom) = resp.saved_courses
          /\ Len(resp.errorsFrom) = Len(resp.errors)
          /\ \A n \in 1..Len(rows) :
               Occurrences(req[p].savedFrom, n) + Occurrences(resp.errorsFrom, n) = 1
          /\ resp.saved_courses + Len(resp.errors) = resp.total_rows
          /\ resp.valid_courses = resp.total_rows - Cardinality(RejectedNums(rows))

\* a report of three rows: one rejected at validation, one refused as a duplicate,
\* one saved
C36_Witness ==
  \E p \in Procs :
    /\ Reported(p)
    /\ req[p].resp.total_rows = 3
    /\ Cardinality(RejectedNums(req[p].file.rows)) = 1
    /\ Cardinality(ConflictErrors(req[p].resp.errors)) = 1
    /\ req[p].resp.saved_courses = 1

-----------------------------------------------------------------------------
(* Rejected creates and reads that find nothing *)

\* the step just taken is the whole of a create in slot p that was rejected, for a
\* validation failure (400) or a duplicate course_id (409)
RejectsCreate(p) ==
  /\ req[p] = Idle
  /\ req'[p].op = "create"
  /\ req'[p].pc = "done"
  /\ req'[p].resp.status \in {400, 409}

\* C37: a create that is rejected leaves the store, the search index and the cache
\* as they were
C37_RejectedCreateFrame ==
  [][\A p \in Procs :
       RejectsCreate(p) => store' = store /\ esIndex' = esIndex /\ cache' = cache]_vars

\* a create refused as a duplicate while the store, the index and the cache all hold
\* something
C37_Witness ==
  \E p \in Procs :
    /\ req[p].op = "create" /\ Responded(p)
    /\ req[p].resp.status = 409
    /\ store # <<>> /\ esIndex # {} /\ cache # <<>>

\* the step just taken is the lookup of a single read in slot p that matches no
\* stored course
FindsNothing(p) ==
  /\ req[p].op = "single"
  /\ req[p].pc = "query"
  /\ req'[p] # req[p]
  /\ FindOne(store, req[p].q.id) = <<>>

\* the single read in slot p started when the course it names was already stored
NamesStored(p, i) ==
  /\ req[p].op = "single"
  /\ i \in 1..req[p].startVer
  /\ Names(req[p].q.id, store[i])

\* C38: a single read whose identifier matches no stored course is answered 404 and
\* writes nothing to the cache, and a single read that starts once a course is stored
\* under the identifier is answered with that course
C38_NotFoundNotCached ==
  /\ [][\A p \in Procs :
          FindsNothing(p) =>
            req'[p].pc = "done" /\ req'[p].resp.status = 404 /\ cache' = cache]_vars
  /\ [](\A p \in Procs : \A i \in DOMAIN store :
          (NamesStored(p, i) /\ Responded(p)) =>
            req[p].resp.status = 200 /\ req[p].resp.data = store[i])

-----------------------------------------------------------------------------
(* The cache adapter *)

\* the step just taken is a call of get, set or del in slot p
AdapterCall(p) ==
  req[p] = Idle /\ req'[p].op \in {"redis.get", "redis.set", "redis.del"}

\* what get, set and del return while the flag is down
DownResult(op) == IF op = "redis.get" THEN <<>> ELSE FALSE

\* C39: get, set and del never raise, and while isConnected is false they send nothing
\* to the client (get yields a miss, set and del yield false, the cache is untouched);
\* isConnected is true only after a 'ready' event with no 'error' or 'end' event and
\* no disconnect since
C39_AdapterNeverRaises ==
  /\ [][\A p \in Procs :
          AdapterCall(p) =>
            /\ req'[p].pc = "done"
            /\ DOMAIN req'[p].resp = {"returned"}
            /\ ~redisConnected =>
                 cache' = cache /\ req'[p].resp.returned = DownResult(req'[p].op)]_vars
  /\ [](redisConnected => redisEvent = "ready")

\* a set refused with false after the connection was lost, while an entry written
\* before is still in Redis
C39_Witness ==
  \E p \in Procs :
    /\ req[p].op = "redis.set" /\ Responded(p)
    /\ ~req[p].connected
    /\ req[p].resp.returned = FALSE
    /\ redisEvent \in {"error", "end", "disconnect"}
    /\ req[p].key \notin DOMAIN cache
    /\ cache # <<>>

-----------------------------------------------------------------------------
(* Recommendations *)

\* an element of the returned list that is a recommendation object
Defined(x) == "relevance_score" \in DOMAIN x

\* C40: a 200 response of POST /api/recommendations carries at most 6 recommendations
\* and every position of the list holds a recommendation object, whatever the numbers
\* of mock recommendations and of real courses
C40_NoMissingPositions ==
  \A p \in Procs :
    (req[p].op = "recommend" /\ Responded(p) /\ req[p].resp.status = 200) =>
      /\ Len(req[p].resp.recommendations) <= MaxRecommendations
      /\ \A i \in 1..Len(req[p].resp.recommendations) :
           Defined(req[p].resp.recommendations[i])
====
